---------------------------- MODULE Spec2Model ----------------------------
(***************************************************************************)
(* A model of the ssh_config resolver: Config.Resolve walks the Host and   *)
(* Match blocks of the loaded documents in one to three passes and builds  *)
(* the map of effective directive values.                                  *)
(*                                                                         *)
(* Strings are sequences of one-character strings, so that lowercasing,    *)
(* trimming, tokenising and glob matching are computed as the code         *)
(* computes them.                                                          *)
(***************************************************************************)
EXTENDS Integers, Sequences, FiniteSets, TLC

(***************************************************************************)
(* Go string helpers (package strings).                                    *)
(***************************************************************************)
Uppers == <<"A", "B", "C", "D", "E", "F", "G", "H", "I", "J", "K", "L", "M",
            "N", "O", "P", "Q", "R", "S", "T", "U", "V", "W", "X", "Y", "Z">>

Lowers == <<"a", "b", "c", "d", "e", "f", "g", "h", "i", "j", "k", "l", "m",
            "n", "o", "p", "q", "r", "s", "t", "u", "v", "w", "x", "y", "z">>

Digits == {"0", "1", "2", "3", "4", "5", "6", "7", "8", "9"}

WhiteSpace == {" ", "\t", "\n", "\r"}

\* The letters unicode.ToLower changes, with their lowercase forms.
lowerOf == [i \in 1..Len(Uppers) |-> Lowers[i]]

upperIndex == [c \in {Uppers[i] : i \in 1..Len(Uppers)} |->
                 CHOOSE i \in 1..Len(Uppers) : Uppers[i] = c]

ToLowerChar(c) == IF c \in DOMAIN upperIndex THEN lowerOf[upperIndex[c]] ELSE c

ToLower(s) == [i \in 1..Len(s) |-> ToLowerChar(s[i])]

RECURSIVE TrimLeft(_)
TrimLeft(s) ==
    IF s # <<>> /\ Head(s) \in WhiteSpace THEN TrimLeft(Tail(s)) ELSE s

RECURSIVE TrimRight(_)
TrimRight(s) ==
    IF s # <<>> /\ s[Len(s)] \in WhiteSpace
    THEN TrimRight(SubSeq(s, 1, Len(s) - 1))
    ELSE s

TrimSpace(s) == TrimRight(TrimLeft(s))

HasPrefix(s, p) == Len(s) >= Len(p) /\ SubSeq(s, 1, Len(p)) = p

TrimPrefix(s, p) == IF HasPrefix(s, p) THEN SubSeq(s, Len(p) + 1, Len(s)) ELSE s

EqualFold(s, t) == ToLower(s) = ToLower(t)

\* strings.Index(s, c) for a one-character c: 0-based index, -1 when absent.
IndexChar(s, c) ==
    IF \E i \in 1..Len(s) : s[i] = c
    THEN (CHOOSE i \in 1..Len(s) : s[i] = c /\ \A j \in 1..(i - 1) : s[j] # c) - 1
    ELSE -1

\* strings.FieldsFunc(s, f) with f the membership in seps; cur is the field
\* being collected.
RECURSIVE FieldsRec(_, _, _)
FieldsRec(s, seps, cur) ==
    IF s = <<>>
    THEN IF cur = <<>> THEN <<>> ELSE <<cur>>
    ELSE IF Head(s) \in seps
         THEN (IF cur = <<>> THEN <<>> ELSE <<cur>>) \o FieldsRec(Tail(s), seps, <<>>)
         ELSE FieldsRec(Tail(s), seps, Append(cur, Head(s)))

FieldsFunc(s, seps) == FieldsRec(s, seps, <<>>)

RECURSIVE Concat(_)
Concat(ss) == IF ss = <<>> THEN <<>> ELSE Head(ss) \o Concat(Tail(ss))

(***************************************************************************)
(* Patterns.  NewPattern compiles a glob to the anchored regular           *)
(* expression ^...$ in which * is .* and ? is .? and every other byte is   *)
(* itself; the compiled expression is represented by the glob text and     *)
(* RegexMatch decides whether the expression matches a value.              *)
(***************************************************************************)
RECURSIVE RegexMatch(_, _)
RegexMatch(glob, v) ==
    IF glob = <<>>
    THEN v = <<>>
    ELSE IF Head(glob) = "*"
         THEN \/ RegexMatch(Tail(glob), v)
              \/ v # <<>> /\ RegexMatch(glob, Tail(v))
         ELSE IF Head(glob) = "?"
              THEN \/ RegexMatch(Tail(glob), v)
                   \/ v # <<>> /\ RegexMatch(Tail(glob), Tail(v))
              ELSE v # <<>> /\ Head(v) = Head(glob) /\ RegexMatch(Tail(glob), Tail(v))

NewPattern(s) ==
    IF s = <<>>
    THEN [err |-> "empty pattern", str |-> <<>>, regex |-> <<>>, not |-> FALSE]
    ELSE LET negated == s[1] = "!"
             t == IF negated THEN Tail(s) ELSE s
         IN  [err |-> "", str |-> t, regex |-> t, not |-> negated]

\* Host.Matches returning at the first pattern that matches, so that a
\* negated pattern after a match is not consulted.
RECURSIVE MatchesFromFirstMatch(_, _, _, _)
MatchesFromFirstMatch(patterns, alias, i, found) ==
    IF i > Len(patterns)
    THEN found
    ELSE IF RegexMatch(patterns[i].regex, alias)
         THEN ~patterns[i].not
         ELSE MatchesFromFirstMatch(patterns, alias, i + 1, found)

\* Host.Matches over the block's compiled patterns.
RECURSIVE MatchesFrom(_, _, _, _)
MatchesFrom(patterns, alias, i, found) ==
    IF i > Len(patterns)
    THEN found
    ELSE IF RegexMatch(patterns[i].regex, alias)
         THEN IF patterns[i].not
              THEN FALSE
              ELSE MatchesFrom(patterns, alias, i + 1, TRUE)
         ELSE MatchesFrom(patterns, alias, i + 1, found)

Matches(h, alias) == MatchesFrom(h.Patterns, alias, 1, FALSE)

splitPatternList(patterns) == FieldsFunc(patterns, {",", " ", "\t"})

\* NewPattern fails only on the empty string, which matchPattern answers
\* itself, so matchPattern never returns an error.
matchPattern(value, pattern) ==
    IF pattern = <<>>
    THEN FALSE
    ELSE RegexMatch(NewPattern(pattern).regex, value)

RECURSIVE matchPatternParts(_, _, _, _, _)
matchPatternParts(valueToMatch, parts, caseInsensitive, i, matched) ==
    IF i > Len(parts)
    THEN matched
    ELSE LET negate == HasPrefix(parts[i], <<"!">>)
             part == IF negate THEN TrimPrefix(parts[i], <<"!">>) ELSE parts[i]
             pattern == IF caseInsensitive THEN ToLower(part) ELSE part
         IN  IF matchPattern(valueToMatch, pattern)
             THEN IF negate
                  THEN FALSE
                  ELSE matchPatternParts(valueToMatch, parts, caseInsensitive, i + 1, TRUE)
             ELSE matchPatternParts(valueToMatch, parts, caseInsensitive, i + 1, matched)

matchPatternList(value, patternList, caseInsensitive) ==
    matchPatternParts(IF caseInsensitive THEN ToLower(value) ELSE value,
                      splitPatternList(patternList), caseInsensitive, 1, FALSE)

(***************************************************************************)
(* String literals of the program and of the embedded client spec.         *)
(***************************************************************************)
s_afstokenpassing == <<"a", "f", "s", "t", "o", "k", "e", "n", "p", "a", "s", "s", "i", "n", "g">>
s_certificatefile == <<"c", "e", "r", "t", "i", "f", "i", "c", "a", "t", "e", "f", "i", "l", "e">>
s_cipher == <<"c", "i", "p", "h", "e", "r">>
s_compression == <<"c", "o", "m", "p", "r", "e", "s", "s", "i", "o", "n">>
s_fallbacktorsh == <<"f", "a", "l", "l", "b", "a", "c", "k", "t", "o", "r", "s", "h">>
s_hostkeyalias == <<"h", "o", "s", "t", "k", "e", "y", "a", "l", "i", "a", "s">>
s_hostname == <<"h", "o", "s", "t", "n", "a", "m", "e">>
s_identityfile == <<"i", "d", "e", "n", "t", "i", "t", "y", "f", "i", "l", "e">>
s_identityfile2 == <<"i", "d", "e", "n", "t", "i", "t", "y", "f", "i", "l", "e", "2">>
s_ignoreunknown == <<"i", "g", "n", "o", "r", "e", "u", "n", "k", "n", "o", "w", "n">>
s_loglevel == <<"l", "o", "g", "l", "e", "v", "e", "l">>
s_port == <<"p", "o", "r", "t">>
s_proxyjump == <<"p", "r", "o", "x", "y", "j", "u", "m", "p">>
s_pubkeyacceptedalgorithms == <<"p", "u", "b", "k", "e", "y", "a", "c", "c", "e", "p", "t", "e", "d", "a", "l", "g", "o", "r", "i", "t", "h", "m", "s">>
s_pubkeyacceptedkeytypes == <<"p", "u", "b", "k", "e", "y", "a", "c", "c", "e", "p", "t", "e", "d", "k", "e", "y", "t", "y", "p", "e", "s">>
s_sessiontype == <<"s", "e", "s", "s", "i", "o", "n", "t", "y", "p", "e">>
s_tag == <<"t", "a", "g">>
s_user == <<"u", "s", "e", "r">>
s_yes == <<"y", "e", "s">>
s_no == <<"n", "o">>
s_none == <<"n", "o", "n", "e">>
s_22 == <<"2", "2">>
s_shell == <<"s", "h", "e", "l", "l">>
s_exec == <<"e", "x", "e", "c">>
s_all == <<"a", "l", "l">>
s_canonical == <<"c", "a", "n", "o", "n", "i", "c", "a", "l">>
s_final == <<"f", "i", "n", "a", "l">>
s_host == <<"h", "o", "s", "t">>
s_originalhost == <<"o", "r", "i", "g", "i", "n", "a", "l", "h", "o", "s", "t">>
s_localuser == <<"l", "o", "c", "a", "l", "u", "s", "e", "r">>
s_localnetwork == <<"l", "o", "c", "a", "l", "n", "e", "t", "w", "o", "r", "k">>
s_version == <<"v", "e", "r", "s", "i", "o", "n">>
s_tagged == <<"t", "a", "g", "g", "e", "d">>
s_command == <<"c", "o", "m", "m", "a", "n", "d">>
s_batchmode == <<"b", "a", "t", "c", "h", "m", "o", "d", "e">>
s_userknownhostsfile == <<"u", "s", "e", "r", "k", "n", "o", "w", "n", "h", "o", "s", "t", "s", "f", "i", "l", "e">>
s_userknownhostsfile2 == <<"u", "s", "e", "r", "k", "n", "o", "w", "n", "h", "o", "s", "t", "s", "f", "i", "l", "e", "2">>
s_kh1 == <<"~", "/", ".", "s", "s", "h", "/", "k", "h">>
s_kh2 == <<"~", "/", ".", "s", "s", "h", "/", "k", "h", "2">>
s_cf1 == <<"~", "/", "c", "1">>
s_cf2 == <<"~", "/", "c", "2">>
s_algs == <<"e", "d">>
s_subsystem == <<"s", "u", "b", "s", "y", "s", "t", "e", "m">>
s_default == <<"d", "e", "f", "a", "u", "l", "t">>
s_OpenSSH == <<"1", "0", ".", "2">>

(***************************************************************************)
(* The embedded OpenSSH client spec (testdata/openssh_client_spec.json as  *)
(* the generator writes it): entries sorted by name; an entry whose name   *)
(* is not the first keyword of its opcode carries aliasFor; the status     *)
(* follows the opcode, so the obsolete spelling of a supported option is   *)
(* itself "supported" and every oDeprecated keyword after the first        *)
(* aliases the first one.                                                  *)
(***************************************************************************)
NoDefault == [kind |-> "nil", str |-> <<>>, list |-> <<>>]

StringDefault(s) == [kind |-> "string", str |-> s, list |-> <<>>]

ListDefault(l) == [kind |-> "list", str |-> <<>>, list |-> l]

specDirective(name, canonical, status, type, multi, default, enum) ==
    [Name |-> name, Canonical |-> canonical, Status |-> status, Type |-> type,
     Multi |-> multi, Default |-> default,
     AliasFor |-> IF name # canonical THEN canonical ELSE <<>>,
     Enum |-> enum]

Directives == <<
    specDirective(s_afstokenpassing, s_afstokenpassing, "unsupported", "string", FALSE, NoDefault, <<>>),
    specDirective(s_batchmode, s_batchmode, "supported", "yesno", FALSE, NoDefault, <<>>),
    specDirective(s_certificatefile, s_certificatefile, "supported", "string", TRUE,
                  ListDefault(<<s_cf1, s_cf2>>), <<>>),
    specDirective(s_cipher, s_cipher, "deprecated", "string", FALSE, NoDefault, <<>>),
    specDirective(s_compression, s_compression, "supported", "enum", FALSE,
                  StringDefault(s_no), <<s_yes, s_no>>),
    specDirective(s_fallbacktorsh, s_cipher, "deprecated", "string", FALSE, NoDefault, <<>>),
    specDirective(s_hostkeyalias, s_hostkeyalias, "supported", "string", FALSE, NoDefault, <<>>),
    specDirective(s_hostname, s_hostname, "supported", "string", FALSE, NoDefault, <<>>),
    specDirective(s_identityfile, s_identityfile, "supported", "string", TRUE, NoDefault, <<>>),
    specDirective(s_identityfile2, s_identityfile, "supported", "string", TRUE, NoDefault, <<>>),
    specDirective(s_ignoreunknown, s_ignoreunknown, "supported", "string", FALSE, NoDefault, <<>>),
    specDirective(s_port, s_port, "supported", "uint", FALSE, StringDefault(s_22), <<>>),
    specDirective(s_proxyjump, s_proxyjump, "supported", "string", FALSE, NoDefault, <<>>),
    specDirective(s_pubkeyacceptedalgorithms, s_pubkeyacceptedalgorithms, "supported", "list",
                  FALSE, NoDefault, <<>>),
    specDirective(s_pubkeyacceptedkeytypes, s_pubkeyacceptedalgorithms, "supported", "list",
                  FALSE, NoDefault, <<>>),
    specDirective(s_sessiontype, s_sessiontype, "supported", "enum", FALSE, NoDefault,
                  <<s_none, s_subsystem, s_default>>),
    specDirective(s_tag, s_tag, "supported", "string", FALSE, NoDefault, <<>>),
    specDirective(s_user, s_user, "supported", "string", FALSE, NoDefault, <<>>),
    specDirective(s_userknownhostsfile, s_userknownhostsfile, "supported", "string", FALSE,
                  ListDefault(<<s_kh1, s_kh2>>), <<>>),
    specDirective(s_userknownhostsfile2, s_userknownhostsfile, "supported", "string", FALSE,
                  NoDefault, <<>>)
>>

OpenSSHVersion == s_OpenSSH

\* The index loadClientSpec builds: lowercased name to the position of the
\* entry in Directives; a later entry of the same name replaces an earlier one.
byNameIndex ==
    [n \in {ToLower(Directives[i].Name) : i \in 1..Len(Directives)} |->
        CHOOSE i \in 1..Len(Directives) :
            /\ ToLower(Directives[i].Name) = n
            /\ \A j \in (i + 1)..Len(Directives) : ToLower(Directives[j].Name) # n]

\* spec.byName[lkey]: the position of the entry, 0 for a nil entry.
byName(lkey) == IF lkey \in DOMAIN byNameIndex THEN byNameIndex[lkey] ELSE 0

RECURSIVE NonEmptyItems(_)
NonEmptyItems(l) ==
    IF l = <<>>
    THEN <<>>
    ELSE (IF Head(l) # <<>> THEN <<Head(l)>> ELSE <<>>) \o NonEmptyItems(Tail(l))

defaultValues(d) ==
    CASE d.Default.kind = "string" ->
            IF d.Default.str = <<>> THEN <<>> ELSE <<d.Default.str>>
      [] d.Default.kind = "list" -> NonEmptyItems(d.Default.list)
      [] OTHER -> <<>>

(***************************************************************************)
(* Applying a directive.                                                   *)
(***************************************************************************)
validateValue(directive, value) ==
    LET val == TrimSpace(value)
        lower == ToLower(val)
    IN  CASE directive.Type = "yesno" ->
                IF lower # s_yes /\ lower # s_no THEN "must be yes or no" ELSE ""
          [] directive.Type = "uint" ->
                IF val = <<>> \/ \E i \in 1..Len(val) : val[i] \notin Digits
                THEN "must be an unsigned integer"
                ELSE ""
          [] directive.Type = "enum" ->
                IF Len(directive.Enum) = 0
                THEN ""
                ELSE IF \E i \in 1..Len(directive.Enum) : ToLower(directive.Enum[i]) = lower
                     THEN ""
                     ELSE "invalid value"
          [] directive.Type = "list" ->
                IF val = <<>> THEN "must be non-empty" ELSE ""
          [] OTHER -> ""

\* matchesIgnoreUnknown comparing the key with the patterns as they are written.
matchesIgnoreUnknownExact(patterns, key) ==
    IF patterns = <<>> THEN FALSE ELSE matchPatternList(key, patterns, FALSE)

matchesIgnoreUnknown(patterns, key) ==
    IF patterns = <<>> THEN FALSE ELSE matchPatternList(key, patterns, TRUE)

Has(values, key) == key \in DOMAIN values

Put(values, key, vals) ==
    [k \in DOMAIN values \cup {key} |-> IF k = key THEN vals ELSE values[k]]

\* The storage key of a known directive: aliasFor when set, else canonical.
canonicalKey(directive) ==
    ToLower(IF directive.AliasFor # <<>> THEN directive.AliasFor ELSE directive.Canonical)

\* assign with the multi-valued case skipping a value the list already holds.
assignOnceEach(directive, value, state) ==
    LET canonical == canonicalKey(directive)
        held == IF Has(state.values, canonical) THEN state.values[canonical] ELSE <<>>
    IN  IF canonical = s_ignoreunknown
        THEN IF ~Has(state.values, canonical)
             THEN [values |-> Put(state.values, canonical, <<value>>),
                   ignoreUnknown |-> value]
             ELSE state
        ELSE IF directive.Multi
             THEN IF \E i \in 1..Len(held) : held[i] = value
                  THEN state
                  ELSE [state EXCEPT !.values = Put(state.values, canonical, held \o <<value>>)]
             ELSE IF ~Has(state.values, canonical)
                  THEN [state EXCEPT !.values = Put(state.values, canonical, <<value>>)]
                  ELSE state

\* assign with the single-valued case overwriting: the last value wins.
assignLastWins(directive, value, state) ==
    LET canonical == canonicalKey(directive)
    IN  IF canonical = s_ignoreunknown
        THEN IF ~Has(state.values, canonical)
             THEN [values |-> Put(state.values, canonical, <<value>>),
                   ignoreUnknown |-> value]
             ELSE state
        ELSE IF directive.Multi
             THEN [state EXCEPT !.values =
                      Put(state.values, canonical,
                          (IF Has(state.values, canonical)
                           THEN state.values[canonical] ELSE <<>>) \o <<value>>)]
             ELSE [state EXCEPT !.values = Put(state.values, canonical, <<value>>)]

\* The assignment at the end of applyDirective, reached by an active, known,
\* not unsupported directive.
assign(directive, value, state) ==
    LET canonical == canonicalKey(directive)
    IN  IF canonical = s_ignoreunknown
        THEN IF ~Has(state.values, canonical)
             THEN [values |-> Put(state.values, canonical, <<value>>),
                   ignoreUnknown |-> value]
             ELSE state
        ELSE IF directive.Multi
             THEN [state EXCEPT !.values =
                      Put(state.values, canonical,
                          (IF Has(state.values, canonical)
                           THEN state.values[canonical] ELSE <<>>) \o <<value>>)]
             ELSE IF ~Has(state.values, canonical)
                  THEN [state EXCEPT !.values = Put(state.values, canonical, <<value>>)]
                  ELSE state

\* applyDirective validating the value only after the activation gate.
applyDirectiveActiveOnly(key, value, active, options, state) ==
    LET lkey == ToLower(TrimSpace(key))
        idx == byName(lkey)
        directive == Directives[idx]
        ok == [err |-> "", state |-> state]
        fail(e) == [err |-> e, state |-> state]
    IN  IF idx = 0
        THEN IF options.strict
             THEN IF matchesIgnoreUnknown(state.ignoreUnknown, lkey)
                  THEN ok
                  ELSE fail("unknown directive")
             ELSE ok
        ELSE IF directive.Status = "unsupported"
             THEN IF options.strict THEN fail("unsupported directive") ELSE ok
             ELSE IF directive.Status = "deprecated" /\ directive.AliasFor = <<>>
                     /\ options.strict
                  THEN fail("deprecated directive")
                  ELSE IF ~active
                       THEN ok
                       ELSE IF options.strict /\ validateValue(directive, value) # ""
                            THEN fail(validateValue(directive, value))
                            ELSE [err |-> "", state |-> assign(directive, value, state)]

\* applyDirective validating in both modes and, outside strict mode, dropping
\* the directive whose value fails.
applyDirectiveDropInvalid(key, value, active, options, state) ==
    LET lkey == ToLower(TrimSpace(key))
        idx == byName(lkey)
        directive == Directives[idx]
        ok == [err |-> "", state |-> state]
        fail(e) == [err |-> e, state |-> state]
    IN  IF idx = 0
        THEN IF options.strict
             THEN IF matchesIgnoreUnknown(state.ignoreUnknown, lkey)
                  THEN ok
                  ELSE fail("unknown directive")
             ELSE ok
        ELSE IF directive.Status = "unsupported"
             THEN IF options.strict THEN fail("unsupported directive") ELSE ok
             ELSE IF directive.Status = "deprecated" /\ directive.AliasFor = <<>>
                     /\ options.strict
                  THEN fail("deprecated directive")
                  ELSE IF validateValue(directive, value) # ""
                       THEN IF options.strict
                            THEN fail(validateValue(directive, value))
                            ELSE ok
                       ELSE IF ~active
                            THEN ok
                            ELSE [err |-> "", state |-> assign(directive, value, state)]

\* applyDirective returns the error ("" for nil) and the state it leaves.
applyDirective(key, value, active, options, state) ==
    LET lkey == ToLower(TrimSpace(key))
        idx == byName(lkey)
        directive == Directives[idx]
        ok == [err |-> "", state |-> state]
        fail(e) == [err |-> e, state |-> state]
    IN  IF idx = 0
        THEN IF options.strict
             THEN IF matchesIgnoreUnknown(state.ignoreUnknown, lkey)
                  THEN ok
                  ELSE fail("unknown directive")
             ELSE ok
        ELSE IF directive.Status = "unsupported"
             THEN IF options.strict THEN fail("unsupported directive") ELSE ok
             ELSE IF directive.Status = "deprecated" /\ directive.AliasFor = <<>>
                     /\ options.strict
                  THEN fail("deprecated directive")
                  ELSE IF options.strict /\ validateValue(directive, value) # ""
                       THEN fail(validateValue(directive, value))
                       ELSE IF ~active
                            THEN ok
                            ELSE [err |-> "", state |-> assign(directive, value, state)]

\* fillDefaults without the test for a configured key.
RECURSIVE fillDefaultsOverConfigured(_, _)
fillDefaultsOverConfigured(values, i) ==
    IF i > Len(Directives)
    THEN values
    ELSE LET d == Directives[i]
             key == ToLower(d.Name)
             defaults == defaultValues(d)
         IN  IF \/ d.Name # d.Canonical
                \/ d.Status # "supported"
                \/ Len(defaults) = 0
             THEN fillDefaultsOverConfigured(values, i + 1)
             ELSE fillDefaultsOverConfigured(
                      Put(values, key, IF d.Multi THEN defaults ELSE <<defaults[1]>>), i + 1)

RECURSIVE fillDefaults(_, _)
fillDefaults(values, i) ==
    IF i > Len(Directives)
    THEN values
    ELSE LET d == Directives[i]
             key == ToLower(d.Name)
             defaults == defaultValues(d)
         IN  IF \/ d.Name # d.Canonical
                \/ d.Status # "supported"
                \/ Has(values, key)
                \/ Len(defaults) = 0
             THEN fillDefaults(values, i + 1)
             ELSE fillDefaults(Put(values, key,
                                   IF d.Multi THEN defaults ELSE <<defaults[1]>>),
                               i + 1)

\* applyDefaults installing the defaults of the spec only.
applyDefaultsOfSpec(state, ctx) == [state EXCEPT !.values = fillDefaults(state.values, 1)]

applyDefaults(state, ctx) ==
    LET v1 == fillDefaults(state.values, 1)
        v2 == IF ~Has(v1, s_hostname) /\ ctx.HostArg # <<>>
              THEN Put(v1, s_hostname, <<ctx.HostArg>>)
              ELSE v1
        v3 == IF ~Has(v2, s_user) /\ ctx.LocalUser # <<>>
              THEN Put(v2, s_user, <<ctx.LocalUser>>)
              ELSE v2
    IN  [state EXCEPT !.values = v3]

firstValue(values, key) ==
    LET k == ToLower(key)
    IN  IF Has(values, k) /\ Len(values[k]) > 0 THEN values[k][1] ELSE <<>>


(***************************************************************************)
(* Match criteria: tokenising, parsing, evaluation.                        *)
(***************************************************************************)
\* tokenizeMatchCriteria: st is the scanner state after the runes read so far.
tokenFlush(st) ==
    IF st.field = <<>>
    THEN st
    ELSE [st EXCEPT !.fields = Append(st.fields, st.field), !.field = <<>>]

tokenStep(st, r) ==
    IF st.escaped
    THEN IF r \in {" ", "\t", "\"", "\\"}
         THEN [st EXCEPT !.field = Append(st.field, r), !.escaped = FALSE]
         ELSE [st EXCEPT !.field = st.field \o <<"\\", r>>, !.escaped = FALSE]
    ELSE CASE r = "\\" -> [st EXCEPT !.escaped = TRUE]
           [] r = "\"" -> [st EXCEPT !.inQuotes = ~st.inQuotes]
           [] r \in {" ", "\t"} ->
                IF st.inQuotes
                THEN [st EXCEPT !.field = Append(st.field, r)]
                ELSE tokenFlush(st)
           [] OTHER -> [st EXCEPT !.field = Append(st.field, r)]

RECURSIVE tokenScan(_, _)
tokenScan(st, raw) ==
    IF raw = <<>> THEN st ELSE tokenScan(tokenStep(st, Head(raw)), Tail(raw))

tokenizeMatchCriteria(raw) ==
    LET st == tokenScan([fields |-> <<>>, field |-> <<>>, inQuotes |-> FALSE,
                         escaped |-> FALSE], raw)
        st2 == IF st.escaped THEN [st EXCEPT !.field = Append(st.field, "\\")] ELSE st
    IN  IF st2.inQuotes
        THEN [err |-> "unterminated quoted Match criterion", fields |-> <<>>]
        ELSE [err |-> "", fields |-> tokenFlush(st2).fields]

matchCriterion(name, value, negate) == [name |-> name, value |-> value, negate |-> negate]

RECURSIVE parseFields(_, _, _)
parseFields(fields, i, criteria) ==
    IF i > Len(fields)
    THEN [err |-> "", criteria |-> criteria]
    ELSE LET negate == HasPrefix(fields[i], <<"!">>)
             field == IF negate THEN TrimPrefix(fields[i], <<"!">>) ELSE fields[i]
             name == ToLower(field)
             eq == IndexChar(field, "=")
         IN  IF name = s_all \/ name = s_canonical \/ name = s_final
             THEN parseFields(fields, i + 1, Append(criteria, matchCriterion(name, <<>>, negate)))
             ELSE IF eq >= 0
                  THEN parseFields(fields, i + 1,
                           Append(criteria,
                                  matchCriterion(ToLower(SubSeq(field, 1, eq)),
                                                 SubSeq(field, eq + 2, Len(field)), negate)))
                  ELSE IF i + 1 > Len(fields)
                       THEN [err |-> "missing argument for Match", criteria |-> <<>>]
                       ELSE parseFields(fields, i + 2,
                                Append(criteria, matchCriterion(name, fields[i + 1], negate)))

parseMatchCriteria(raw) ==
    LET tok == tokenizeMatchCriteria(raw)
    IN  IF tok.err # ""
        THEN [err |-> tok.err, criteria |-> <<>>]
        ELSE IF Len(tok.fields) = 0
             THEN [err |-> "Match requires criteria", criteria |-> <<>>]
             ELSE parseFields(tok.fields, 1, <<>>)

validateMatchAll(criteria) ==
    IF \E i \in 1..Len(criteria) : criteria[i].name = s_all
    THEN LET i == CHOOSE i \in 1..Len(criteria) :
                      /\ criteria[i].name = s_all
                      /\ \A j \in 1..(i - 1) : criteria[j].name # s_all
         IN  IF Len(criteria) = 1
             THEN ""
             ELSE IF /\ Len(criteria) = 2
                     /\ i = 2
                     /\ criteria[1].name \in {s_canonical, s_final}
                  THEN ""
                  ELSE "Match all cannot be combined with other attributes"
    ELSE ""

applyNegation(value, negate) == IF negate THEN ~value ELSE value

remoteUser(ctx, state) ==
    IF firstValue(state.values, s_user) # <<>>
    THEN firstValue(state.values, s_user)
    ELSE ctx.LocalUser

sessionType(ctx, state) ==
    IF firstValue(state.values, s_sessiontype) # <<>>
    THEN firstValue(state.values, s_sessiontype)
    ELSE IF ctx.Command # <<>> THEN s_exec ELSE ctx.SessionType

RECURSIVE expandHostNameFrom(_, _, _)
expandHostNameFrom(value, hostArg, i) ==
    IF i > Len(value)
    THEN <<>>
    ELSE IF value[i] # "%"
         THEN <<value[i]>> \o expandHostNameFrom(value, hostArg, i + 1)
         ELSE IF i + 1 > Len(value)
              THEN <<"%">> \o expandHostNameFrom(value, hostArg, i + 1)
              ELSE (CASE value[i + 1] = "%" -> <<"%">>
                      [] value[i + 1] = "h" -> hostArg
                      [] OTHER -> <<"%", value[i + 1]>>)
                   \o expandHostNameFrom(value, hostArg, i + 2)

expandHostName(value, hostArg) == expandHostNameFrom(value, hostArg, 1)

\* effectiveHost looking at HostArg only.
effectiveHostArg(ctx, state) == ctx.HostArg

effectiveHost(ctx, state) ==
    IF firstValue(state.values, s_hostname) # <<>>
    THEN expandHostName(firstValue(state.values, s_hostname), ctx.HostArg)
    ELSE ctx.HostArg

(***************************************************************************)
(* The process environment read by expandMatchExec and normalizeContext.   *)
(***************************************************************************)
env_Hostname == <<"l", "h", ".", "l", "a", "n">>
env_HomeDir == <<"/", "h">>
env_Uid == <<"7">>
env_Username == <<"m", "e">>

\* The digest is not computed: it is represented by the bytes fed to it, in
\* order, between two marks.
connectionHash(localHost, host, port, user, jump) ==
    <<"{">> \o localHost \o host \o port \o user \o jump \o <<"}">>

resolvePort(state) ==
    IF firstValue(state.values, s_port) # <<>>
    THEN firstValue(state.values, s_port)
    ELSE IF byName(s_port) # 0 /\ Len(defaultValues(Directives[byName(s_port)])) > 0
         THEN defaultValues(Directives[byName(s_port)])[1]
         ELSE s_22

RECURSIVE expandTokensFrom(_, _, _)
expandTokensFrom(value, values, i) ==
    IF i > Len(value)
    THEN <<>>
    ELSE IF value[i] # "%"
         THEN <<value[i]>> \o expandTokensFrom(value, values, i + 1)
         ELSE IF i + 1 > Len(value)
              THEN <<"%">> \o expandTokensFrom(value, values, i + 1)
              ELSE LET token == SubSeq(value, i, i + 1)
                   IN  (IF token \in DOMAIN values THEN values[token] ELSE token)
                       \o expandTokensFrom(value, values, i + 2)

\* expandTokens expanding what the first scan wrote.
expandTokensAgain(value, values) ==
    expandTokensFrom(expandTokensFrom(value, values, 1), values, 1)

expandTokens(value, values) == expandTokensFrom(value, values, 1)

execTokenValues(ctx, state) ==
    LET localHost == env_Hostname
        dot == IndexChar(localHost, ".")
        shortHost == IF dot > 0 THEN SubSeq(localHost, 1, dot) ELSE localHost
        port == resolvePort(state)
        remote == remoteUser(ctx, state)
        pj == firstValue(state.values, s_proxyjump)
        jump == IF EqualFold(pj, s_none) THEN <<>> ELSE pj
        host == effectiveHost(ctx, state)
        ka == firstValue(state.values, s_hostkeyalias)
        keyAlias == IF ka = <<>> THEN host ELSE ka
    IN  (<<"%", "%">> :> <<"%">>) @@
        (<<"%", "C">> :> connectionHash(localHost, host, port, remote, jump)) @@
        (<<"%", "L">> :> shortHost) @@
        (<<"%", "d">> :> env_HomeDir) @@
        (<<"%", "h">> :> host) @@
        (<<"%", "k">> :> keyAlias) @@
        (<<"%", "l">> :> localHost) @@
        (<<"%", "n">> :> ctx.OriginalHost) @@
        (<<"%", "p">> :> port) @@
        (<<"%", "r">> :> remote) @@
        (<<"%", "u">> :> ctx.LocalUser) @@
        (<<"%", "i">> :> env_Uid) @@
        (<<"%", "j">> :> jump)

expandMatchExec(value, ctx, state) == expandTokens(value, execTokenValues(ctx, state))

\* A callback of the Context (Exec, LocalNetwork) is "nil" or answers every
\* call alike: "true", "false", or "error".
callbackResult(cb) == [ok |-> cb = "true", err |-> IF cb = "error" THEN "callback failed" ELSE ""]

\* evalCriterion returns the boolean, the error ("" for nil) and the
\* arguments it passed to the Exec and LocalNetwork callbacks.
evalCriterion(c, ctx, pass, options, state) ==
    LET res(m, e) == [matched |-> m, err |-> e, exec |-> <<>>, net |-> <<>>]
        list(value, ci) == res(applyNegation(matchPatternList(value, c.value, ci), c.negate), "")
    IN  CASE c.name = s_all -> res(applyNegation(TRUE, c.negate), "")
          [] c.name = s_canonical -> res(applyNegation(pass = "canonical", c.negate), "")
          [] c.name = s_final -> res(applyNegation(pass = "final", c.negate), "")
          [] c.name = s_host -> list(effectiveHost(ctx, state), TRUE)
          [] c.name = s_originalhost -> list(ctx.OriginalHost, TRUE)
          [] c.name = s_user -> list(remoteUser(ctx, state), FALSE)
          [] c.name = s_localuser -> list(ctx.LocalUser, FALSE)
          [] c.name = s_localnetwork ->
                IF ctx.LocalNetwork = "nil"
                THEN res(FALSE, IF options.strict
                                THEN "Match localnetwork requires LocalNetwork callback"
                                ELSE "")
                ELSE LET r == callbackResult(ctx.LocalNetwork)
                     IN  [matched |-> IF r.err # "" THEN FALSE ELSE applyNegation(r.ok, c.negate),
                          err |-> IF r.err # "" /\ options.strict THEN r.err ELSE "",
                          exec |-> <<>>, net |-> <<c.value>>]
          [] c.name = s_version -> list(ctx.Version, FALSE)
          [] c.name = s_tagged ->
                IF firstValue(state.values, s_tag) = <<>> /\ c.value = <<>>
                THEN res(applyNegation(TRUE, c.negate), "")
                ELSE list(firstValue(state.values, s_tag), FALSE)
          [] c.name = s_command ->
                IF ctx.Command = <<>> /\ c.value = <<>>
                THEN res(applyNegation(TRUE, c.negate), "")
                ELSE list(ctx.Command, FALSE)
          [] c.name = s_sessiontype -> list(sessionType(ctx, state), FALSE)
          [] c.name = s_exec ->
                IF ctx.Exec = "nil"
                THEN res(FALSE, IF options.strict
                                THEN "Match exec requires Exec callback"
                                ELSE "")
                ELSE LET cmd == expandMatchExec(c.value, ctx, state)
                         r == callbackResult(ctx.Exec)
                     IN  [matched |-> IF r.err # "" THEN FALSE ELSE applyNegation(r.ok, c.negate),
                          err |-> IF r.err # "" /\ options.strict THEN r.err ELSE "",
                          exec |-> <<cmd>>, net |-> <<>>]
          [] OTHER -> res(FALSE, IF options.strict THEN "unsupported Match attribute" ELSE "")

\* The loop of evalMatch from criterion i on.  acc.result is the running
\* conjunction; acc.evals records, per criterion, "skip" or the outcome
\* ("true", "false", "error") and the callback arguments.
\* skipExec never skipping.
skipExecNever(result, c) == FALSE

skipExec(result, c) == ~result /\ c.name = s_exec

\* One turn of the loop for a criterion that is evaluated: r is what
\* evalCriterion returned.
evalTurn(acc, r) ==
    IF r.err # ""
    THEN [result |-> FALSE, err |-> r.err,
          evals |-> Append(acc.evals, [outcome |-> "error", exec |-> r.exec, net |-> r.net])]
    ELSE [result |-> acc.result /\ r.matched, err |-> "",
          evals |-> Append(acc.evals, [outcome |-> IF r.matched THEN "true" ELSE "false",
                                       exec |-> r.exec, net |-> r.net])]

RECURSIVE evalLoop(_, _, _, _, _, _, _)
evalLoop(criteria, i, acc, ctx, pass, options, state) ==
    IF i > Len(criteria) \/ acc.err # ""
    THEN acc
    ELSE IF skipExec(acc.result, criteria[i])
         THEN evalLoop(criteria, i + 1,
                       [acc EXCEPT !.evals = Append(acc.evals,
                            [outcome |-> "skip", exec |-> <<>>, net |-> <<>>])],
                       ctx, pass, options, state)
         ELSE evalLoop(criteria, i + 1,
                       evalTurn(acc, evalCriterion(criteria[i], ctx, pass, options, state)),
                       ctx, pass, options, state)

evalMatch(criteria, ctx, pass, options, state) ==
    IF Len(criteria) = 0
    THEN [result |-> FALSE, err |-> "Match requires criteria", evals |-> <<>>]
    ELSE IF validateMatchAll(criteria) # ""
         THEN [result |-> FALSE, err |-> validateMatchAll(criteria), evals |-> <<>>]
         ELSE evalLoop(criteria, 1, [result |-> TRUE, err |-> "", evals |-> <<>>],
                       ctx, pass, options, state)


(***************************************************************************)
(* Documents.  A Config holds Blocks and the legacy Hosts; a block is a    *)
(* Host (compiled Patterns) or a Match (raw Criteria) with its Nodes; a    *)
(* node is a KV, an Empty line or an Include with the documents parsed     *)
(* for its matches.                                                        *)
(***************************************************************************)
Host(patterns, nodes) ==
    [kind |-> "Host", Patterns |-> [i \in 1..Len(patterns) |-> NewPattern(patterns[i])],
     Criteria |-> <<>>, Nodes |-> nodes]

Match(criteria, nodes) ==
    [kind |-> "Match", Patterns |-> <<>>, Criteria |-> criteria, Nodes |-> nodes]

KV(key, value) == [kind |-> "KV", Key |-> key, Value |-> value, matches |-> <<>>, files |-> <<>>]

Empty == [kind |-> "Empty", Key |-> <<>>, Value |-> <<>>, matches |-> <<>>, files |-> <<>>]

\* matches lists the matched paths in order; files[i] is the document parsed
\* for matches[i].
Include(matches, files) ==
    [kind |-> "Include", Key |-> <<>>, Value |-> <<>>, matches |-> matches, files |-> files]

\* A decoded Config: Blocks holds every block, Hosts the Host blocks.
Config(blocks) == [Hosts |-> SelectSeq(blocks, LAMBDA b : b.kind = "Host"), Blocks |-> blocks]

\* effectiveBlocks without the fallback to Hosts.
effectiveBlocksOnly(c) == c.Blocks

effectiveBlocks(c) == IF Len(c.Blocks) > 0 THEN c.Blocks ELSE c.Hosts

(***************************************************************************)
(* The state of one Resolve call.                                          *)
(***************************************************************************)
VARIABLES
    configs,     \* the documents handed to resolveConfigs, in order
    ctx,         \* the Context (HostArg is replaced by the canonical name)
    options,     \* resolveOptions
    pc,          \* "start", "walk", "passEnd", "done"
    pass,        \* passType of the running pass
    state,       \* resolveState of the running pass
    cfgIdx,      \* number of configs resolvePass has entered
    stack,       \* the resolveConfig/resolveNodes activations, innermost last
    result,      \* the local variable result of resolveConfigs
    canonDone,   \* the canonicalize callback has been consulted
    ret,         \* what Resolve returned
    trace,       \* history: the applyDirective calls of this pass and their outcome
    matchLog,    \* history: the Match lines evaluated in this Resolve
    canonCalls,  \* history: the arguments passed to the canonicalize callback
    passes,      \* history: the passes started, in order
    call,        \* the exported function called last, with its arguments
    answer,      \* what that call returned
    text,        \* the bytes handed to Decode
    out,         \* what Config.String returned
    us,          \* the UserSettings: finders, cached configs, loadConfigs, onceErr
    procs,       \* the callers of UserSettings.Resolve: position and return values
    io,          \* history: the finders invoked and the files read
    slices       \* the slices Result.GetAll handed out, as the callers left them

vars == <<configs, ctx, options, pc, pass, state, cfgIdx, stack, result, canonDone,
          ret, trace, matchLog, canonCalls, passes, call, answer, text, out,
          us, procs, io, slices>>

\* What a Resolve call leaves alone.
auxVars == <<call, answer, text, out, us, procs, io, slices>>

\* No function has been called.
NoCall == [fn |-> "none", list |-> <<>>, value |-> <<>>, fold |-> FALSE]

\* The call has not returned.
Pending == [done |-> FALSE, value |-> FALSE]

\* Nothing was decoded from bytes.
NoText == [given |-> FALSE, bytes |-> <<>>]

\* String has not been called.
NoOutput == [done |-> FALSE, bytes |-> <<>>]

\* A nil configFinder, and the finder returning filename.
NoFinder == [set |-> FALSE, returns |-> <<>>]

Finder(filename) == [set |-> TRUE, returns |-> filename]

\* A nil *Config.
NoConfig == [ok |-> FALSE, cfg |-> [Hosts |-> <<>>, Blocks |-> <<>>]]

\* &UserSettings{IgnoreErrors: ..., the finders}: nothing loaded.
UserSettings(ignoreErrors, custom, user, system) ==
    [IgnoreErrors |-> ignoreErrors,
     customConfigFinder |-> custom, userConfigFinder |-> user, systemConfigFinder |-> system,
     customConfig |-> NoConfig, userConfig |-> NoConfig, systemConfig |-> NoConfig,
     loadConfigs |-> "idle", step |-> "none", onceErr |-> ""]

\* No UserSettings is in use.
NoSettings == UserSettings(FALSE, NoFinder, NoFinder, NoFinder)

NoCallers == <<>>

NoIO == [loads |-> 0, finders |-> <<>>, reads |-> <<>>]

NoSlices == <<>>

EmptyMap == [k \in {} |-> <<>>]

NilResult == [ok |-> FALSE, values |-> EmptyMap]

\* &resolveState{values: make(map[string][]string)}
EmptyState == [values |-> EmptyMap, ignoreUnknown |-> <<>>]

\* resolveState handing the next pass the state the previous pass left.
resolveStateCarried(previous) == previous

\* resolvePass starts from a new resolveState whatever the previous pass left.
resolveState(previous) == EmptyState

currentUserName == env_Username

\* normalizeContext taking OriginalHost from HostArg whatever the caller gave.
normalizeContextHostArg(c) ==
    [c EXCEPT
        !.OriginalHost = c.HostArg,
        !.LocalUser = IF c.LocalUser = <<>> THEN currentUserName ELSE c.LocalUser,
        !.Version = IF c.Version = <<>> THEN OpenSSHVersion ELSE c.Version,
        !.SessionType = IF c.SessionType = <<>> THEN s_shell ELSE c.SessionType]

normalizeContext(c) ==
    [c EXCEPT
        !.OriginalHost = IF c.OriginalHost = <<>> THEN c.HostArg ELSE c.OriginalHost,
        !.LocalUser = IF c.LocalUser = <<>> THEN currentUserName ELSE c.LocalUser,
        !.Version = IF c.Version = <<>> THEN OpenSSHVersion ELSE c.Version,
        !.SessionType = IF c.SessionType = <<>> THEN s_shell ELSE c.SessionType]

\* An activation of resolveConfig: block bi of blocks is being walked; ni = 0
\* while its header is still to be evaluated, else ni is the next node; mi
\* counts the documents of the Include node ni already entered.
frame(cfg, neverMatch) ==
    [blocks |-> effectiveBlocks(cfg), bi |-> 1, ni |-> 0, mi |-> 0,
     active |-> FALSE, neverMatch |-> neverMatch]

\* Moves the position past finished nodes, blocks and documents, to the next
\* header or node to execute.
RECURSIVE settle(_)
settle(s) ==
    IF s = <<>>
    THEN s
    ELSE LET top == s[Len(s)]
             rest == SubSeq(s, 1, Len(s) - 1)
         IN  IF top.bi > Len(top.blocks)
             THEN settle(rest)
             ELSE IF top.ni > Len(top.blocks[top.bi].Nodes)
                  THEN settle(Append(rest, [top EXCEPT !.bi = top.bi + 1, !.ni = 0, !.mi = 0]))
                  ELSE IF /\ top.ni >= 1
                          /\ top.blocks[top.bi].Nodes[top.ni].kind = "Include"
                          /\ top.mi >= Len(top.blocks[top.bi].Nodes[top.ni].matches)
                       THEN settle(Append(rest, [top EXCEPT !.ni = top.ni + 1, !.mi = 0]))
                       ELSE s

Top == stack[Len(stack)]

Rest == SubSeq(stack, 1, Len(stack) - 1)

CurBlock == Top.blocks[Top.bi]

CurNode == CurBlock.Nodes[Top.ni]

AtHeader == pc = "walk" /\ stack # <<>> /\ Top.ni = 0

AtNode == pc = "walk" /\ stack # <<>> /\ Top.ni >= 1

\* return result, err
FailWithResult(e) ==
    /\ pc' = "done"
    /\ ret' = [result |-> result, err |-> e]

\* return nil, err
Fail(e) ==
    /\ pc' = "done"
    /\ ret' = [result |-> NilResult, err |-> e]

StartPass(p, c) ==
    /\ pc' = "walk"
    /\ pass' = p
    /\ ctx' = c
    /\ state' = resolveState(state)
    /\ cfgIdx' = 0
    /\ stack' = <<>>
    /\ trace' = <<>>
    /\ passes' = Append(passes, p)

\* resolveConfigs up to the start of the initial pass.
Begin ==
    /\ pc = "start"
    /\ IF ctx.HostArg = <<>>
       THEN /\ Fail("Context.HostArg is required")
            /\ UNCHANGED <<ctx, pass, state, cfgIdx, stack, trace, passes>>
       ELSE /\ StartPass("initial", normalizeContext(ctx))
            /\ UNCHANGED ret
    /\ UNCHANGED <<configs, options, result, canonDone, matchLog, canonCalls>>
    /\ UNCHANGED auxVars

\* resolvePass calls resolveConfig for the next config.
EnterConfig ==
    /\ pc = "walk"
    /\ stack = <<>>
    /\ cfgIdx < Len(configs)
    /\ cfgIdx' = cfgIdx + 1
    /\ stack' = settle(<<frame(configs[cfgIdx + 1], FALSE)>>)
    /\ UNCHANGED <<configs, ctx, options, pc, pass, state, result, canonDone, ret,
                   trace, matchLog, canonCalls, passes>>
    /\ UNCHANGED auxVars

\* resolveConfig, case *Host.
EnterHost ==
    /\ AtHeader
    /\ CurBlock.kind = "Host"
    /\ LET active == IF ~Top.neverMatch THEN Matches(CurBlock, ctx.HostArg) ELSE FALSE
       IN  stack' = settle(Append(Rest, [Top EXCEPT !.active = active, !.ni = 1]))
    /\ UNCHANGED <<configs, ctx, options, pc, pass, state, cfgIdx, result, canonDone, ret,
                   trace, matchLog, canonCalls, passes>>
    /\ UNCHANGED auxVars

\* resolveConfig, case *Match.
EnterMatch ==
    /\ AtHeader
    /\ CurBlock.kind = "Match"
    /\ \E parsed \in {parseMatchCriteria(CurBlock.Criteria)} :
       \E ev \in {evalMatch(parsed.criteria, ctx, pass, options, state)} :
          LET enter(active) ==
                  /\ stack' = settle(Append(Rest, [Top EXCEPT !.active = active, !.ni = 1]))
                  /\ UNCHANGED <<pc, ret>>
          IN  IF Top.neverMatch
              THEN enter(FALSE) /\ UNCHANGED matchLog
              ELSE IF parsed.err # ""
                   THEN /\ IF options.strict
                           THEN Fail(parsed.err) /\ UNCHANGED stack
                           ELSE enter(FALSE)
                        /\ UNCHANGED matchLog
                   ELSE /\ matchLog' = Append(matchLog,
                               [criteria |-> parsed.criteria, evals |-> ev.evals,
                                err |-> ev.err, active |-> ev.result, pass |-> pass])
                        /\ IF ev.err # ""
                           THEN Fail(ev.err) /\ UNCHANGED stack
                           ELSE enter(ev.result)
    /\ UNCHANGED <<configs, ctx, options, pass, state, cfgIdx, result, canonDone,
                   trace, canonCalls, passes>>
    /\ UNCHANGED auxVars

\* resolveNodes, case *KV.
ApplyKV ==
    /\ AtNode
    /\ CurNode.kind = "KV"
    /\ LET r == applyDirective(CurNode.Key, CurNode.Value, Top.active, options, state)
       IN  /\ trace' = Append(trace, [key |-> CurNode.Key, value |-> CurNode.Value,
                                       active |-> Top.active, depth |-> Len(stack),
                                       err |-> r.err, stored |-> r.state # state])
           /\ IF r.err # ""
              THEN /\ Fail(r.err)
                   /\ UNCHANGED <<state, stack>>
              ELSE /\ state' = r.state
                   /\ stack' = settle(Append(Rest, [Top EXCEPT !.ni = Top.ni + 1]))
                   /\ UNCHANGED <<pc, ret>>
    /\ UNCHANGED <<configs, ctx, options, pass, cfgIdx, result, canonDone,
                   matchLog, canonCalls, passes>>
    /\ UNCHANGED auxVars

\* resolveNodes, case *Empty.
SkipEmpty ==
    /\ AtNode
    /\ CurNode.kind = "Empty"
    /\ stack' = settle(Append(Rest, [Top EXCEPT !.ni = Top.ni + 1]))
    /\ UNCHANGED <<configs, ctx, options, pc, pass, state, cfgIdx, result, canonDone, ret,
                   trace, matchLog, canonCalls, passes>>
    /\ UNCHANGED auxVars

\* includeNeverMatch looking at the enclosing document only.
includeNeverMatchInherited(neverMatch, active) == neverMatch

\* includeNeverMatch := neverMatch || !active
includeNeverMatch(neverMatch, active) == neverMatch \/ ~active

\* resolveNodes, case *Include: resolveConfig for the next matched document.
EnterInclude ==
    /\ AtNode
    /\ CurNode.kind = "Include"
    /\ Top.mi < Len(CurNode.matches)
    /\ stack' = settle(Append(Rest, [Top EXCEPT !.mi = Top.mi + 1])
                       \o <<frame(CurNode.files[Top.mi + 1],
                                  includeNeverMatch(Top.neverMatch, Top.active))>>)
    /\ UNCHANGED <<configs, ctx, options, pc, pass, state, cfgIdx, result, canonDone, ret,
                   trace, matchLog, canonCalls, passes>>
    /\ UNCHANGED auxVars

\* The end of resolvePass: defaults, and the Result assigned to result.
FinishPass ==
    /\ pc = "walk"
    /\ stack = <<>>
    /\ cfgIdx = Len(configs)
    /\ state' = applyDefaults(state, ctx)
    /\ result' = [ok |-> TRUE, values |-> applyDefaults(state, ctx).values]
    /\ pc' = "passEnd"
    /\ UNCHANGED <<configs, ctx, options, pass, cfgIdx, stack, canonDone, ret,
                   trace, matchLog, canonCalls, passes>>
    /\ UNCHANGED auxVars

\* What the callback returns for host: the canonical name (its argument when
\* the callback echoes it), changed, and whether it fails.
canonicalizeCall(cb, host) ==
    [canonical |-> IF cb.echo THEN host ELSE cb.canonical, changed |-> cb.changed,
     err |-> IF cb.fails THEN "canonicalize failed" ELSE ""]

\* resolveConfigs after the initial pass: the canonicalize callback and, when it
\* reports a change, the start of the canonical pass.
\* wantsCanonicalPass without the test of changed.
wantsCanonicalPassUnchanged(r) == r.canonical # <<>>

wantsCanonicalPass(r) == r.changed /\ r.canonical # <<>>

Canonicalize ==
    /\ pc = "passEnd"
    /\ pass = "initial"
    /\ options.canonicalize.set
    /\ ~canonDone
    /\ canonDone' = TRUE
    /\ canonCalls' = Append(canonCalls, ctx.HostArg)
    /\ LET r == canonicalizeCall(options.canonicalize, ctx.HostArg)
       IN  IF r.err # ""
           THEN /\ Fail(r.err)
                /\ UNCHANGED <<ctx, pass, state, cfgIdx, stack, trace, passes>>
           ELSE IF wantsCanonicalPass(r)
                THEN /\ StartPass("canonical", [ctx EXCEPT !.HostArg = r.canonical])
                     /\ UNCHANGED ret
                ELSE UNCHANGED <<ctx, pc, pass, state, cfgIdx, stack, trace, passes, ret>>
    /\ UNCHANGED <<configs, options, result, matchLog>>
    /\ UNCHANGED auxVars

CanonicalizeSettled == pass # "initial" \/ ~options.canonicalize.set \/ canonDone

\* resolveConfigs: the final pass.
StartFinalPass ==
    /\ pc = "passEnd"
    /\ pass # "final"
    /\ CanonicalizeSettled
    /\ options.finalPass
    /\ StartPass("final", ctx)
    /\ UNCHANGED <<configs, options, result, canonDone, ret, matchLog, canonCalls>>
    /\ UNCHANGED auxVars

\* return result, nil
Return ==
    /\ pc = "passEnd"
    /\ CanonicalizeSettled
    /\ pass = "final" \/ ~options.finalPass
    /\ pc' = "done"
    /\ ret' = [result |-> result, err |-> ""]
    /\ UNCHANGED <<configs, ctx, options, pass, state, cfgIdx, stack, result, canonDone,
                   trace, matchLog, canonCalls, passes>>
    /\ UNCHANGED auxVars

Next ==
    \/ Begin
    \/ EnterConfig
    \/ EnterHost
    \/ EnterMatch
    \/ ApplyKV
    \/ SkipEmpty
    \/ EnterInclude
    \/ FinishPass
    \/ Canonicalize
    \/ StartFinalPass
    \/ Return


(***************************************************************************)
(* Inputs: hosts, patterns, keys and values as they are written in         *)
(* configuration files, and the documents built from them.                 *)
(***************************************************************************)
h_foo == <<"f", "o", "o">>
h_bar == <<"b", "a", "r">>
p_star == <<"*">>
p_notfoo == <<"!", "f", "o", "o">>
p_b_r == <<"b", "?", "r">>
k_User == <<"U", "s", "e", "r">>
k_Port == <<"P", "o", "r", "t">>
k_HostName == <<"H", "o", "s", "t", "N", "a", "m", "e">>
k_IdentityFile == <<"I", "d", "e", "n", "t", "i", "t", "y", "F", "i", "l", "e">>
k_CertificateFile == <<"C", "e", "r", "t", "i", "f", "i", "c", "a", "t", "e", "F", "i", "l", "e">>
k_PubkeyAcceptedKeyTypes == <<"P", "u", "b", "k", "e", "y", "A", "c", "c", "e", "p", "t", "e", "d", "K", "e", "y", "T", "y", "p", "e", "s">>
k_PubkeyAcceptedAlgorithms == <<"P", "u", "b", "k", "e", "y", "A", "c", "c", "e", "p", "t", "e", "d", "A", "l", "g", "o", "r", "i", "t", "h", "m", "s">>
k_IgnoreUnknown == <<"I", "g", "n", "o", "r", "e", "U", "n", "k", "n", "o", "w", "n">>
k_FooBar == <<"F", "o", "o", "B", "a", "r">>
k_BadDirective == <<"B", "a", "d", "D", "i", "r", "e", "c", "t", "i", "v", "e">>
k_Cipher == <<"C", "i", "p", "h", "e", "r">>
k_FallBackToRsh == <<"F", "a", "l", "l", "B", "a", "c", "k", "T", "o", "R", "s", "h">>
k_AFSTokenPassing == <<"A", "F", "S", "T", "o", "k", "e", "n", "P", "a", "s", "s", "i", "n", "g">>
k_Compression == <<"C", "o", "m", "p", "r", "e", "s", "s", "i", "o", "n">>
k_BatchMode == <<"B", "a", "t", "c", "h", "M", "o", "d", "e">>
k_Tag == <<"T", "a", "g">>
v_a == <<"a">>
v_b == <<"b">>
v_s == <<"s">>
v_i == <<"i">>
v_f1 == <<"f", "1">>
v_f2 == <<"f", "2">>
v_f3 == <<"f", "3">>
v_k == <<"k">>
v_2222 == <<"2", "2", "2", "2">>
v_nope == <<"n", "o", "p", "e">>
v_maybe == <<"m", "a", "y", "b", "e">>
v_blank == <<" ">>
v_3des == <<"3", "d", "e", "s">>
v_fooStar == <<"F", "o", "o", "*">>
v_baz == <<"b", "a", "z">>
v_canon == <<"c", "a", "n", "o", "n">>
v_final == <<"f", "i", "n", "a", "l">>
v_every == <<"e", "v", "e", "r", "y">>
v_ex == <<"e", "x">>
v_t == <<"t">>
path_inc1 == <<"/", "i", "1">>
path_inc2 == <<"/", "i", "2">>
m_canonical == <<"c", "a", "n", "o", "n", "i", "c", "a", "l">>
m_final == <<"f", "i", "n", "a", "l">>
m_all == <<"a", "l", "l">>
m_notcanonical == <<"!", "c", "a", "n", "o", "n", "i", "c", "a", "l">>
m_hostfoo_exec == <<"h", "o", "s", "t", "=", "f", "o", "o", " ", "e", "x", "e", "c", " ", "\"", "c", " ", "%", "h", "\"">>
m_hostbar_exec == <<"h", "o", "s", "t", " ", "b", "a", "r", " ", "e", "x", "e", "c", " ", "c", "2">>
m_exec_exec == <<"e", "x", "e", "c", " ", "a", " ", "!", "e", "x", "e", "c", " ", "b">>
m_net_exec == <<"l", "o", "c", "a", "l", "n", "e", "t", "w", "o", "r", "k", " ", "n", " ", "e", "x", "e", "c", " ", "c">>

\* The longest list of explicit blocks of a top-level document.
MaxBlocks == 2

SeqsUpTo(S, n) == UNION {[1..k -> S] : k \in 0..n}

\* Every decoded document begins with the implicit "Host *" block.
ImplicitHost(nodes) == Host(<<p_star>>, nodes)

Document(blocks) == Config(<<ImplicitHost(<<>>)>> \o blocks)

Inc2 == Config(<<ImplicitHost(<<KV(k_IdentityFile, v_f2)>>),
                 Match(m_all, <<KV(k_User, v_i)>>)>>)

Inc1 == Config(<<ImplicitHost(<<KV(k_IdentityFile, v_f3), KV(k_Port, v_2222)>>),
                 Host(<<h_foo>>, <<Include(<<path_inc2>>, <<Inc2>>), KV(k_User, v_i)>>)>>)

IncBad == Config(<<ImplicitHost(<<KV(k_User, v_i), KV(k_BatchMode, v_maybe)>>)>>)

IncOuter == Config(<<ImplicitHost(<<Include(<<path_inc1>>, <<IncBad>>)>>)>>)

\* Blocks about which values reach the result.
ValueBlocks == {
    Host(<<p_star>>, <<KV(k_User, v_a)>>),
    Host(<<h_foo>>, <<KV(k_User, v_b), KV(k_IdentityFile, v_f1)>>),
    Host(<<p_b_r>>, <<KV(k_IdentityFile, v_f2), Empty, KV(k_Port, v_2222)>>),
    Host(<<p_notfoo, p_star>>, <<KV(k_IdentityFile, v_f1), KV(k_PubkeyAcceptedKeyTypes, v_k)>>),
    Host(<<p_star>>, <<KV(k_PubkeyAcceptedAlgorithms, v_b), KV(k_CertificateFile, v_f3)>>),
    Host(<<h_foo>>, <<KV(k_AFSTokenPassing, s_yes), KV(k_Port, v_nope)>>),
    Host(<<p_star>>, <<Include(<<path_inc1, path_inc2>>, <<Inc1, Inc2>>)>>),
    Host(<<h_bar>>, <<Include(<<path_inc1>>, <<Inc1>>), KV(k_User, v_b)>>)}

\* Blocks about what strict mode rejects.
StrictBlocks == {
    Host(<<p_star>>, <<KV(k_IgnoreUnknown, v_fooStar), KV(k_FooBar, v_baz), KV(k_User, v_a)>>),
    Host(<<h_foo>>, <<KV(k_BadDirective, v_b)>>),
    Host(<<h_bar>>, <<KV(k_IgnoreUnknown, v_fooStar), KV(k_Port, v_2222)>>),
    Host(<<p_star>>, <<KV(k_FallBackToRsh, s_yes), KV(k_User, v_b)>>),
    Host(<<h_foo>>, <<KV(k_Cipher, v_3des)>>),
    Host(<<h_bar>>, <<KV(k_Compression, v_maybe), KV(k_Port, v_nope)>>),
    Host(<<p_star>>, <<KV(k_PubkeyAcceptedAlgorithms, v_blank)>>),
    Host(<<h_bar>>, <<Include(<<path_inc2>>, <<IncOuter>>)>>),
    Host(<<h_foo>>, <<KV(k_FooBar, v_baz), KV(k_Port, v_2222)>>)}

\* Blocks about Match lines and passes.
MatchBlocks == {
    Match(m_canonical, <<KV(k_User, v_canon)>>),
    Match(m_final, <<KV(k_User, v_final)>>),
    Match(m_all, <<KV(k_User, v_every), KV(k_IdentityFile, v_f1)>>),
    Match(m_notcanonical, <<KV(k_Port, v_2222)>>),
    Match(m_hostfoo_exec, <<KV(k_User, v_ex)>>),
    Match(m_hostbar_exec, <<KV(k_Tag, v_t)>>),
    Match(m_exec_exec, <<KV(k_HostName, h_bar)>>),
    Match(m_net_exec, <<KV(k_IdentityFile, v_f2)>>),
    Host(<<h_foo>>, <<KV(k_User, v_b)>>)}

SystemDocs == {Document(<<Host(<<p_star>>, <<KV(k_User, v_s), KV(k_IdentityFile, v_f1)>>)>>)}

Context(hostArg, exec, localNetwork) ==
    [HostArg |-> hostArg, OriginalHost |-> <<>>, LocalUser |-> <<>>, Version |-> <<>>,
     SessionType |-> <<>>, Command |-> <<>>, Exec |-> exec, LocalNetwork |-> localNetwork]

NoCanonicalize ==
    [set |-> FALSE, echo |-> FALSE, canonical |-> <<>>, changed |-> FALSE, fails |-> FALSE]

CanonicalizeFn(echo, canonical, changed, fails) ==
    [set |-> TRUE, echo |-> echo, canonical |-> canonical, changed |-> changed, fails |-> fails]

CanonicalizeTo(name) == CanonicalizeFn(FALSE, name, TRUE, FALSE)

resolveOptions(strict, finalPass, canonicalize) ==
    [strict |-> strict, finalPass |-> finalPass, canonicalize |-> canonicalize]

InitRest ==
    /\ pc = "start"
    /\ pass = "initial"
    /\ state = EmptyState
    /\ cfgIdx = 0
    /\ stack = <<>>
    /\ result = NilResult
    /\ canonDone = FALSE
    /\ ret = [result |-> NilResult, err |-> ""]
    /\ trace = <<>>
    /\ matchLog = <<>>
    /\ canonCalls = <<>>
    /\ passes = <<>>
    /\ call = NoCall
    /\ answer = Pending
    /\ text = NoText
    /\ out = NoOutput
    /\ us = NoSettings
    /\ procs = NoCallers
    /\ io = NoIO
    /\ slices = NoSlices

\* A user config of value blocks, alone or before a system config.
InitValues ==
    /\ \E blocks \in SeqsUpTo(ValueBlocks, MaxBlocks), sys \in SeqsUpTo(SystemDocs, 1) :
          configs = <<Document(blocks)>> \o sys
    /\ \E h \in {h_foo, h_bar} : ctx = Context(h, "nil", "nil")
    /\ \E s \in BOOLEAN, f \in BOOLEAN, c \in {NoCanonicalize, CanonicalizeTo(h_bar)} :
          options = resolveOptions(s, f, c)

InitStrict ==
    /\ \E blocks \in SeqsUpTo(StrictBlocks, MaxBlocks) : configs = <<Document(blocks)>>
    /\ \E h \in {h_foo, h_bar, <<>>} : ctx = Context(h, "nil", "nil")
    /\ \E s \in BOOLEAN, f \in BOOLEAN, c \in {NoCanonicalize, CanonicalizeTo(h_bar)} :
          options = resolveOptions(s, f, c)

InitMatch ==
    /\ \E blocks \in SeqsUpTo(MatchBlocks, MaxBlocks) : configs = <<Document(blocks)>>
    /\ \E e \in {"nil", "true", "false", "error"} : ctx = Context(h_foo, e, "nil")
    /\ \E s \in BOOLEAN, f \in BOOLEAN,
          c \in {NoCanonicalize, CanonicalizeTo(h_bar), CanonicalizeTo(<<>>),
                 CanonicalizeFn(TRUE, <<>>, TRUE, FALSE),
                 CanonicalizeFn(FALSE, h_bar, FALSE, FALSE),
                 CanonicalizeFn(FALSE, h_bar, TRUE, TRUE)} :
          options = resolveOptions(s, f, c)

Init == InitRest /\ (InitValues \/ InitStrict \/ InitMatch)

Spec == Init /\ [][Next]_vars


(***************************************************************************)
(* Reading the history of a pass.                                          *)
(***************************************************************************)
\* The spec entry the key of a KV names: its position, 0 when there is none.
entryOf(key) == byName(ToLower(TrimSpace(key)))

\* The call e was accepted, lay in an active block and named a directive of
\* the spec whose storage key is k.
Names(e, k) ==
    /\ e.err = ""
    /\ e.active
    /\ entryOf(e.key) # 0
    /\ canonicalKey(Directives[entryOf(e.key)]) = k

\* Names(e, k) for a directive whose status is not unsupported.
Configures(e, k) ==
    /\ Names(e, k)
    /\ Directives[entryOf(e.key)].Status # "unsupported"

ValuesOf(calls) == [i \in 1..Len(calls) |-> calls[i].value]

\* The values of the pass's KVs for k, in walk order.
NamedValues(k) == ValuesOf(SelectSeq(trace, LAMBDA e : Names(e, k)))

ConfiguredValues(k) == ValuesOf(SelectSeq(trace, LAMBDA e : Configures(e, k)))

\* Some earlier call of the pass configured the key that call j names.
SetBefore(j) ==
    \E i \in 1..(j - 1) :
        /\ entryOf(trace[j].key) # 0
        /\ Configures(trace[i], canonicalKey(Directives[entryOf(trace[j].key)]))

(***************************************************************************)
(* C1.  As stated: within a pass, for every directive with multi=false the *)
(* resolved value is the value of the first KV for its canonical key that  *)
(* lies in an active block, in walk order.  The statement fails for a      *)
(* directive whose status is unsupported: outside strict mode its KVs are  *)
(* ignored and the key stays unset.                                        *)
(***************************************************************************)
C1_FirstWinsEveryDirective ==
    \A i \in 1..Len(Directives) :
        LET k == canonicalKey(Directives[i])
        IN  (~Directives[i].Multi /\ NamedValues(k) # <<>>) =>
                /\ Has(state.values, k)
                /\ state.values[k] = <<NamedValues(k)[1]>>

\* C1 amended: within a pass, for every directive with multi=false whose
\* status is not unsupported, the value held for its canonical key is the
\* value of the first KV for that key in an active block, in walk order; the
\* result of the pass holds that value, and no later KV of the pass for the
\* key changes the state.
C1_FirstWins ==
    /\ \A i \in 1..Len(Directives) :
          LET k == canonicalKey(Directives[i])
          IN  (/\ ~Directives[i].Multi
               /\ Directives[i].Status # "unsupported"
               /\ ConfiguredValues(k) # <<>>) =>
                  /\ Has(state.values, k)
                  /\ state.values[k] = <<ConfiguredValues(k)[1]>>
                  /\ pc = "passEnd" => result.values[k] = <<ConfiguredValues(k)[1]>>
    /\ \A j \in 1..Len(trace) :
          (/\ entryOf(trace[j].key) # 0
           /\ ~Directives[entryOf(trace[j].key)].Multi
           /\ SetBefore(j)) => ~trace[j].stored

\* A pass over a user and a system config has ended; User was configured at
\* least three times, once inside an included document, the first and the
\* last value differ, and the result holds the first.
C1_Witness ==
    /\ pc = "passEnd"
    /\ Len(configs) = 2
    /\ Len(ConfiguredValues(s_user)) >= 3
    /\ ConfiguredValues(s_user)[1] # ConfiguredValues(s_user)[Len(ConfiguredValues(s_user))]
    /\ \E j \in 1..Len(trace) : Configures(trace[j], s_user) /\ trace[j].depth >= 2
    /\ result.values[s_user] = <<ConfiguredValues(s_user)[1]>>


(***************************************************************************)
(* C2.  For every directive with multi=true the list held for its key is   *)
(* the values of all the pass's KVs for the key that lie in active blocks, *)
(* in walk order, across blocks, included documents and configs: nothing   *)
(* is dropped, reordered or de-duplicated, and the result of the pass      *)
(* holds that list.                                                        *)
(***************************************************************************)
C2_MultiConcatenation ==
    \A i \in 1..Len(Directives) :
        LET k == canonicalKey(Directives[i])
        IN  (Directives[i].Multi /\ NamedValues(k) # <<>>) =>
                /\ Has(state.values, k)
                /\ state.values[k] = NamedValues(k)
                /\ pc = "passEnd" => result.values[k] = NamedValues(k)

\* A pass over a user and a system config has ended with IdentityFile given
\* at least three times, one value twice and one inside an included
\* document, and the result lists them all in order.
C2_Witness ==
    /\ pc = "passEnd"
    /\ Len(configs) = 2
    /\ Len(NamedValues(s_identityfile)) >= 3
    /\ \E a, b \in 1..Len(NamedValues(s_identityfile)) :
          /\ a < b
          /\ NamedValues(s_identityfile)[a] = NamedValues(s_identityfile)[b]
    /\ \E a, b \in 1..Len(NamedValues(s_identityfile)) :
          NamedValues(s_identityfile)[a] # NamedValues(s_identityfile)[b]
    /\ \E j \in 1..Len(trace) : Names(trace[j], s_identityfile) /\ trace[j].depth >= 2
    /\ result.values[s_identityfile] = NamedValues(s_identityfile)

(***************************************************************************)
(* C3.  After a pass, for every spec entry that is its own canonical, has  *)
(* status supported and has a default: when no KV in an active block set   *)
(* its key the result holds the defaults (the first one for a non-multi    *)
(* directive, all of them for a multi directive); when one did, the result *)
(* holds the configured values alone.                                      *)
(***************************************************************************)
C3_DefaultFill ==
    pc = "passEnd" =>
        \A i \in 1..Len(Directives) :
            LET d == Directives[i]
                k == ToLower(d.Name)
            IN  (d.Name = d.Canonical /\ d.Status = "supported" /\ defaultValues(d) # <<>>) =>
                    /\ Has(result.values, k)
                    /\ result.values[k] =
                          IF NamedValues(k) = <<>>
                          THEN IF d.Multi THEN defaultValues(d) ELSE <<defaultValues(d)[1]>>
                          ELSE IF d.Multi THEN NamedValues(k) ELSE <<NamedValues(k)[1]>>

\* A pass has ended in which Port and CertificateFile were configured and
\* Compression and UserKnownHostsFile were not: the result holds the two
\* configured values without their defaults, the default of Compression and
\* the first of the two defaults of UserKnownHostsFile.
C3_Witness ==
    /\ pc = "passEnd"
    /\ NamedValues(s_port) = <<v_2222>>
    /\ result.values[s_port] = <<v_2222>>
    /\ NamedValues(s_certificatefile) = <<v_f3>>
    /\ result.values[s_certificatefile] = <<v_f3>>
    /\ result.values[s_compression] = <<s_no>>
    /\ result.values[s_userknownhostsfile] = <<s_kh1>>


(***************************************************************************)
(* What a pass computes from nothing but its own KVs and the defaults.     *)
(***************************************************************************)
\* The entry of k stands for itself, is supported and has a default.
HasDefault(k) ==
    /\ byName(k) # 0
    /\ Directives[byName(k)].Name = Directives[byName(k)].Canonical
    /\ Directives[byName(k)].Status = "supported"
    /\ defaultValues(Directives[byName(k)]) # <<>>

FreshKeys ==
    {k \in DOMAIN byNameIndex : ConfiguredValues(k) # <<>> \/ HasDefault(k)}
        \cup {s_hostname, s_user}

FreshValues(k) ==
    IF ConfiguredValues(k) # <<>>
    THEN IF Directives[byName(k)].Multi
         THEN ConfiguredValues(k)
         ELSE <<ConfiguredValues(k)[1]>>
    ELSE IF HasDefault(k)
         THEN IF Directives[byName(k)].Multi
              THEN defaultValues(Directives[byName(k)])
              ELSE <<defaultValues(Directives[byName(k)])[1]>>
         ELSE IF k = s_hostname THEN <<ctx.HostArg>> ELSE <<ctx.LocalUser>>

\* The Canonicalize callback is set and reports a change to a non-empty name.
CanonicalChange ==
    /\ options.canonicalize.set
    /\ options.canonicalize.changed
    /\ options.canonicalize.echo \/ options.canonicalize.canonical # <<>>

LastPass ==
    IF options.finalPass THEN "final" ELSE IF CanonicalChange THEN "canonical" ELSE "initial"

PassesOf(canonicalChange, finalPass) ==
    <<"initial">> \o (IF canonicalChange THEN <<"canonical">> ELSE <<>>)
                 \o (IF finalPass THEN <<"final">> ELSE <<>>)

(***************************************************************************)
(* C4.  When Resolve returns a result, the passes run were the initial     *)
(* one, the canonical one if the callback reported a change to a non-empty *)
(* name, and the final one if FinalPass is set; the result returned is     *)
(* that of the last of them, and it holds exactly what that pass's own KVs *)
(* and the defaults give: nothing set only during an earlier pass.         *)
(***************************************************************************)
C4_LastPassFromEmptyState ==
    (pc = "done" /\ ret.err = "") =>
        /\ passes = PassesOf(CanonicalChange, options.finalPass)
        /\ pass = LastPass
        /\ ret.result.ok
        /\ DOMAIN ret.result.values = FreshKeys
        /\ \A k \in FreshKeys : ret.result.values[k] = FreshValues(k)

\* Resolve has returned after three passes; the canonical pass had an active
\* Match canonical block, whose User value came first in that pass, and the
\* result returned holds the User value of the final pass instead.
C4_Witness ==
    /\ pc = "done"
    /\ ret.err = ""
    /\ passes = <<"initial", "canonical", "final">>
    /\ Len(configs[1].Blocks) >= 2
    /\ configs[1].Blocks[2] = Match(m_canonical, <<KV(k_User, v_canon)>>)
    /\ \E i \in 1..Len(matchLog) :
          /\ matchLog[i].pass = "canonical"
          /\ matchLog[i].active
          /\ matchLog[i].criteria[1].name = s_canonical
    /\ ret.result.values[s_user] = <<v_final>>

(***************************************************************************)
(* C5.  A canonical criterion is true exactly while the canonical pass     *)
(* runs and a final criterion exactly while the final pass runs (for the   *)
(* negated forms, exactly in the other passes); a Match block with an      *)
(* un-negated canonical (final) criterion is active only in the canonical  *)
(* (final) pass; the canonical pass runs only when the Canonicalize        *)
(* callback reported a change, the final pass only with FinalPass.         *)
(***************************************************************************)
PassCriterion(name, p) ==
    \A i \in 1..Len(matchLog) :
        /\ \A j \in 1..Len(matchLog[i].evals) :
              matchLog[i].criteria[j].name = name =>
                  (matchLog[i].evals[j].outcome = "true")
                      = ((matchLog[i].pass = p) # matchLog[i].criteria[j].negate)
        /\ \A j \in 1..Len(matchLog[i].criteria) :
              (/\ matchLog[i].criteria[j].name = name
               /\ ~matchLog[i].criteria[j].negate
               /\ matchLog[i].active) => matchLog[i].pass = p

RanPass(p) == \E i \in 1..Len(passes) : passes[i] = p

C5_PassCriteria ==
    /\ PassCriterion(s_canonical, "canonical")
    /\ PassCriterion(s_final, "final")
    /\ RanPass("canonical") => CanonicalChange
    /\ RanPass("final") => options.finalPass

CriterionOfPass(p) ==
    IF p = "canonical" THEN s_canonical ELSE IF p = "final" THEN s_final ELSE <<>>

\* Resolve has returned after three passes over a document with a Match
\* canonical and a Match final block: each was evaluated in all three passes
\* and was active in its own pass alone.
C5_Witness ==
    /\ pc = "done"
    /\ ret.err = ""
    /\ passes = <<"initial", "canonical", "final">>
    /\ \A n \in {s_canonical, s_final} : \A p \in {"initial", "canonical", "final"} :
          \E i \in 1..Len(matchLog) :
              /\ matchLog[i].pass = p
              /\ Len(matchLog[i].criteria) = 1
              /\ matchLog[i].criteria[1].name = n
              /\ ~matchLog[i].criteria[1].negate
              /\ matchLog[i].active = (n = CriterionOfPass(p))


(***************************************************************************)
(* Reading the outcome of one applyDirective call.                         *)
(***************************************************************************)
\* Call j ended Resolve: it is the last call, and Resolve returned its error
\* and no result.
FailedAt(j) ==
    /\ trace[j].err # ""
    /\ j = Len(trace)
    /\ pc = "done"
    /\ ret = [result |-> NilResult, err |-> trace[j].err]

\* The first IgnoreUnknown value an active block of the pass gave before call
\* j, <<>> when there is none.
IgnoreUnknownBefore(j) ==
    LET given == SelectSeq(SubSeq(trace, 1, j - 1), LAMBDA e : Names(e, s_ignoreunknown))
    IN  IF given = <<>> THEN <<>> ELSE given[1].value

Ignored(j) ==
    /\ IgnoreUnknownBefore(j) # <<>>
    /\ matchPatternList(ToLower(TrimSpace(trace[j].key)), IgnoreUnknownBefore(j), TRUE)

(***************************************************************************)
(* C6.  In strict mode a KV whose lowercased key has no spec entry ends    *)
(* Resolve with an error, unless the key matches, case-insensitively, the  *)
(* pattern list given by an earlier IgnoreUnknown KV of the same pass in   *)
(* an active block; then the KV is accepted, changes nothing, and the walk *)
(* goes on.                                                                *)
(***************************************************************************)
C6_StrictUnknownDirective ==
    options.strict =>
        \A j \in 1..Len(trace) :
            entryOf(trace[j].key) = 0 =>
                IF Ignored(j)
                THEN trace[j].err = "" /\ ~trace[j].stored
                ELSE FailedAt(j)

\* A strict pass has ended in which FooBar followed an active IgnoreUnknown
\* Foo*, was accepted without changing the state, and the User KV after it
\* reached the result.
C6_Witness ==
    /\ options.strict
    /\ pc = "passEnd"
    /\ \E j \in 2..(Len(trace) - 1) :
          /\ trace[j].key = k_FooBar
          /\ IgnoreUnknownBefore(j) = v_fooStar
          /\ trace[j].err = ""
          /\ ~trace[j].stored
          /\ trace[j + 1].key = k_User
          /\ trace[j + 1].stored
          /\ result.values[s_user] = <<trace[j + 1].value>>

(***************************************************************************)
(* C7.  In strict mode a KV of a directive that is neither unsupported nor *)
(* a deprecated directive without alias, whose value violates the type     *)
(* rule of the directive, ends Resolve with that error, whether or not its *)
(* block is active and however deep in included documents it lies.         *)
(***************************************************************************)
Validated(j) ==
    /\ entryOf(trace[j].key) # 0
    /\ Directives[entryOf(trace[j].key)].Status # "unsupported"
    /\ ~(/\ Directives[entryOf(trace[j].key)].Status = "deprecated"
          /\ Directives[entryOf(trace[j].key)].AliasFor = <<>>)

Invalid(j) ==
    /\ entryOf(trace[j].key) # 0
    /\ validateValue(Directives[entryOf(trace[j].key)], trace[j].value) # ""

C7_StrictValidatesInactive ==
    options.strict =>
        \A j \in 1..Len(trace) :
            (Validated(j) /\ Invalid(j)) =>
                /\ FailedAt(j)
                /\ trace[j].err = validateValue(Directives[entryOf(trace[j].key)],
                                                trace[j].value)

\* Strict Resolve has failed on BatchMode maybe, met in a document included
\* from a document included under a block that is inactive for the host.
C7_Witness ==
    /\ options.strict
    /\ pc = "done"
    /\ Len(trace) >= 1
    /\ trace[Len(trace)].key = k_BatchMode
    /\ trace[Len(trace)].value = v_maybe
    /\ ~trace[Len(trace)].active
    /\ trace[Len(trace)].depth >= 3
    /\ ret = [result |-> NilResult, err |-> "must be yes or no"]

(***************************************************************************)
(* C8.  As stated: outside strict mode Resolve never fails because of the  *)
(* name or the value of a directive, and a directive strict mode would     *)
(* reject, an unknown one or one whose value fails validation, sets no     *)
(* value.  The second half fails: outside strict mode values are not       *)
(* validated, and Port nope in an active block is stored.                  *)
(***************************************************************************)
C8_RejectedIsAbsent ==
    ~options.strict =>
        \A j \in 1..Len(trace) :
            /\ trace[j].err = ""
            /\ (entryOf(trace[j].key) = 0 \/ Invalid(j)) => ~trace[j].stored

\* C8 amended: outside strict mode no applyDirective call fails; a KV whose
\* key has no spec entry changes nothing; a value that fails the validation
\* of its type is treated like any other value: in an active block, for a
\* directive that is not unsupported, it is appended for a multi directive
\* and stored for a non-multi directive whose key is not yet set, and then it
\* is the value held for the key.
C8_NonStrictNeverFails ==
    ~options.strict =>
        \A j \in 1..Len(trace) :
            /\ trace[j].err = ""
            /\ entryOf(trace[j].key) = 0 => ~trace[j].stored
            /\ (/\ Invalid(j)
                /\ trace[j].active
                /\ Directives[entryOf(trace[j].key)].Status # "unsupported") =>
                   LET d == Directives[entryOf(trace[j].key)]
                   IN  /\ trace[j].stored = (d.Multi \/ ~SetBefore(j))
                       /\ (~d.Multi /\ ~SetBefore(j)) =>
                              state.values[canonicalKey(d)] = <<trace[j].value>>

\* A pass outside strict mode has ended in which the unknown FooBar changed
\* nothing and Port nope, in an active block, was stored and is the Port of
\* the result.
C8_Witness ==
    /\ ~options.strict
    /\ pc = "passEnd"
    /\ \E j \in 1..Len(trace) :
          /\ trace[j].key = k_FooBar
          /\ trace[j].active
          /\ ~trace[j].stored
    /\ \E j \in 1..Len(trace) :
          /\ trace[j].key = k_Port
          /\ trace[j].value = v_nope
          /\ trace[j].stored
    /\ result.values[s_port] = <<v_nope>>

(***************************************************************************)
(* C9.  In strict mode a KV of a directive whose status is deprecated is   *)
(* accepted exactly when the directive has an aliasFor naming a spec entry *)
(* whose status is supported; every other one ends Resolve with an error.  *)
(***************************************************************************)
AliasesSupported(d) ==
    /\ d.AliasFor # <<>>
    /\ byName(ToLower(d.AliasFor)) # 0
    /\ Directives[byName(ToLower(d.AliasFor))].Status = "supported"

C9_DeprecatedNeedsSupportedTarget ==
    options.strict =>
        \A j \in 1..Len(trace) :
            (/\ entryOf(trace[j].key) # 0
             /\ Directives[entryOf(trace[j].key)].Status = "deprecated") =>
                IF AliasesSupported(Directives[entryOf(trace[j].key)])
                THEN trace[j].err = ""
                ELSE FailedAt(j)


(***************************************************************************)
(* C10.  For a Match line whose evaluation ended without error: every      *)
(* criterion has an outcome, in the order written; the block is active     *)
(* exactly when every criterion evaluated true; an exec criterion after a  *)
(* criterion that evaluated false is skipped and the Exec callback is not  *)
(* called for it; for any other exec criterion the callback, when there is *)
(* one, is called exactly once.  For a line ended by an error the same     *)
(* holds of the criteria reached.                                          *)
(***************************************************************************)
FalseBefore(e, j) == \E i \in 1..(j - 1) : e.evals[i].outcome \in {"false", "skip"}

C10_MatchConjunction ==
    \A n \in 1..Len(matchLog) :
        LET e == matchLog[n]
        IN  /\ Len(e.evals) <= Len(e.criteria)
            /\ e.err = "" =>
                  /\ Len(e.evals) = Len(e.criteria)
                  /\ e.active = (\A j \in 1..Len(e.evals) : e.evals[j].outcome = "true")
            /\ e.err # "" => ~e.active
            /\ \A j \in 1..Len(e.evals) :
                  /\ e.criteria[j].name # s_exec => e.evals[j].exec = <<>>
                  /\ e.criteria[j].name = s_exec =>
                        IF FalseBefore(e, j)
                        THEN e.evals[j].outcome = "skip" /\ e.evals[j].exec = <<>>
                        ELSE /\ e.evals[j].outcome # "skip"
                             /\ ctx.Exec # "nil" => Len(e.evals[j].exec) = 1

c_foo == <<"c", " ", "f", "o", "o">>

\* With an Exec callback answering true, a pass has evaluated "host bar exec
\* c2" for host foo, where host was false and exec was skipped without a
\* call, and "host=foo exec "c %h"", where host was true, Exec was called
\* once with "c foo" and the block was active.
C10_Witness ==
    /\ ctx.Exec = "true"
    /\ pc = "passEnd"
    /\ \E n \in 1..Len(matchLog) :
          /\ Len(matchLog[n].criteria) = 2
          /\ matchLog[n].criteria[1].name = s_host
          /\ matchLog[n].criteria[2].name = s_exec
          /\ matchLog[n].evals[1].outcome = "false"
          /\ matchLog[n].evals[2] = [outcome |-> "skip", exec |-> <<>>, net |-> <<>>]
          /\ ~matchLog[n].active
    /\ \E n \in 1..Len(matchLog) :
          /\ Len(matchLog[n].criteria) = 2
          /\ matchLog[n].criteria[1].name = s_host
          /\ matchLog[n].criteria[2].name = s_exec
          /\ matchLog[n].evals[1].outcome = "true"
          /\ matchLog[n].evals[2] = [outcome |-> "true", exec |-> <<c_foo>>, net |-> <<>>]
          /\ matchLog[n].active

(***************************************************************************)
(* C11.  For every criterion that evaluates without error, the criterion   *)
(* written with a leading "!" evaluates, in the same context and state, to *)
(* the opposite boolean.  The criteria are those of the Match line the     *)
(* walk is about to evaluate, each taken as written and with its negation  *)
(* flipped.                                                                *)
(***************************************************************************)
Negated(c) == [c EXCEPT !.negate = ~c.negate]

AtMatchHeader == AtHeader /\ CurBlock.kind = "Match" /\ ~Top.neverMatch

HeaderCriteria ==
    LET parsed == parseMatchCriteria(CurBlock.Criteria)
    IN  IF parsed.err # "" THEN {} ELSE {parsed.criteria[i] : i \in 1..Len(parsed.criteria)}

C11_NegationInverts ==
    AtMatchHeader =>
        \A c \in HeaderCriteria :
            \E plain \in {evalCriterion(c, ctx, pass, options, state)} :
            \E bang \in {evalCriterion(Negated(c), ctx, pass, options, state)} :
                (plain.err = "" /\ bang.err = "") => (bang.matched = ~plain.matched)

(***************************************************************************)
(* Match lines that are not well-formed, and the documents built from      *)
(* them.                                                                   *)
(***************************************************************************)
m_unterminated == <<"h", "o", "s", "t", " ", "\"", "f", "o", "o">>
m_blank == <<" ">>
m_host == <<"h", "o", "s", "t">>
m_all_hostfoo == <<"a", "l", "l", " ", "h", "o", "s", "t", " ", "f", "o", "o">>
m_hostfoo_all == <<"h", "o", "s", "t", " ", "f", "o", "o", " ", "a", "l", "l">>
m_canonical_all == <<"c", "a", "n", "o", "n", "i", "c", "a", "l", " ", "a", "l", "l">>
m_final_all == <<"f", "i", "n", "a", "l", " ", "a", "l", "l">>
m_hostfoo == <<"h", "o", "s", "t", " ", "f", "o", "o">>

IncForms == Config(<<ImplicitHost(<<>>), Match(m_host, <<KV(k_User, v_i)>>)>>)

\* Blocks about the form of Match lines.
FormBlocks == {
    Match(m_unterminated, <<KV(k_User, v_a)>>),
    Match(<<>>, <<KV(k_User, v_b)>>),
    Match(m_blank, <<KV(k_Port, v_2222)>>),
    Match(m_host, <<KV(k_User, v_s)>>),
    Match(m_all_hostfoo, <<KV(k_User, v_every)>>),
    Match(m_hostfoo_all, <<KV(k_User, v_i)>>),
    Match(m_canonical_all, <<KV(k_User, v_canon)>>),
    Match(m_final_all, <<KV(k_User, v_final)>>),
    Match(m_hostfoo, <<KV(k_User, v_ex), Empty, KV(k_BadDirective, v_b)>>),
    Host(<<h_bar>>, <<Include(<<path_inc1>>, <<IncForms>>)>>),
    Host(<<h_foo>>, <<Include(<<path_inc1>>, <<IncForms>>), KV(k_User, v_b)>>)}

InitMatchForms ==
    /\ \E blocks \in SeqsUpTo(FormBlocks, MaxBlocks) : configs = <<Document(blocks)>>
    /\ ctx = Context(h_foo, "nil", "nil")
    /\ \E s \in BOOLEAN, f \in BOOLEAN, c \in {NoCanonicalize, CanonicalizeTo(h_bar)} :
          options = resolveOptions(s, f, c)

\* Resolve over documents whose Match lines are well-formed or not.
InitForms == InitRest /\ InitMatchForms

SpecMatchForms == InitForms /\ [][Next]_vars

(***************************************************************************)
(* C12.  When the walk evaluates a Match line whose criteria are not       *)
(* well-formed (unterminated quote, no criteria, a name without its        *)
(* argument, or "all" combined with other criteria other than second       *)
(* after canonical or final), a strict Resolve fails there, and a          *)
(* non-strict Resolve does not fail and enters the block inactive.         *)
(***************************************************************************)
NotWellFormed(raw) ==
    LET parsed == parseMatchCriteria(raw)
    IN  parsed.err # "" \/ validateMatchAll(parsed.criteria) # ""

C12_MalformedMatch ==
    [][(AtMatchHeader /\ NotWellFormed(CurBlock.Criteria)) =>
          IF options.strict
          THEN pc' = "done" /\ ret'.err # ""
          ELSE /\ pc' = "walk"
               /\ ret' = ret
               /\ stack' = settle(Append(Rest, [Top EXCEPT !.active = FALSE, !.ni = 1]))]_vars

(***************************************************************************)
(* Calls of the pattern functions on their own: NewPattern and the match   *)
(* of its compiled expression, Host.Matches and matchPatternList.  No      *)
(* Resolve runs; call and answer hold the last call and what it returned.  *)
(***************************************************************************)
resolverVars == <<configs, ctx, options, pc, pass, state, cfgIdx, stack, result, canonDone,
                  ret, trace, matchLog, canonCalls, passes>>

\* The longest pattern list of a call.
MaxPatterns == 3

g_foo == <<"f", "o", "o">>
g_Foo == <<"F", "o", "o">>
g_notfoo == <<"!", "f", "o", "o">>
g_notnotfoo == <<"!", "!", "f", "o", "o">>
g_fstar == <<"f", "*">>
g_notFstar == <<"!", "F", "*">>
g_b_r == <<"b", "?", "r">>
g_notb_r == <<"!", "b", "?", "r">>
g_q == <<"?">>
g_qq == <<"?", "?">>
g_star == <<"*">>
g_bang == <<"!">>
a_br == <<"b", "r">>
a_bar == <<"b", "a", "r">>
a_baar == <<"b", "a", "a", "r">>
a_f == <<"f">>

Globs == {g_foo, g_Foo, g_notfoo, g_notnotfoo, g_fstar, g_notFstar, g_b_r, g_notb_r,
          g_q, g_qq, g_star, g_bang}

Aliases == {<<>>, g_foo, g_Foo, a_br, a_bar, a_baar, a_f}

RECURSIVE JoinWith(_, _)
JoinWith(parts, sep) ==
    IF parts = <<>>
    THEN <<>>
    ELSE IF Len(parts) = 1
         THEN parts[1]
         ELSE parts[1] \o <<sep>> \o JoinWith(Tail(parts), sep)

\* The call to make: its function and arguments.
PatternCall(fn, list, value, fold) == [fn |-> fn, list |-> list, value |-> value, fold |-> fold]

InitPatterns ==
    /\ pc = "start"
    /\ pass = "initial"
    /\ state = EmptyState
    /\ cfgIdx = 0
    /\ stack = <<>>
    /\ result = NilResult
    /\ canonDone = FALSE
    /\ ret = [result |-> NilResult, err |-> ""]
    /\ trace = <<>>
    /\ matchLog = <<>>
    /\ canonCalls = <<>>
    /\ passes = <<>>
    /\ configs = <<>>
    /\ ctx = Context(g_foo, "nil", "nil")
    /\ options = resolveOptions(FALSE, FALSE, NoCanonicalize)
    /\ answer = Pending
    /\ text = NoText
    /\ out = NoOutput
    /\ us = NoSettings
    /\ procs = NoCallers
    /\ io = NoIO
    /\ slices = NoSlices
    /\ \/ \E s \in Globs, v \in Aliases : call = PatternCall("NewPattern", s, v, FALSE)
       \/ \E patterns \in SeqsUpTo(Globs, MaxPatterns), alias \in Aliases :
             call = PatternCall("Host.Matches", patterns, alias, FALSE)
       \/ \E patterns \in SeqsUpTo(Globs, MaxPatterns), sep \in {",", " "},
             value \in Aliases, caseInsensitive \in BOOLEAN :
             call = PatternCall("matchPatternList", JoinWith(patterns, sep), value,
                                caseInsensitive)

Returned(v) == [done |-> TRUE, value |-> v]

\* NewPattern(s), then p.regex.MatchString(v).
CallNewPattern ==
    /\ call.fn = "NewPattern"
    /\ ~answer.done
    /\ answer' = Returned(RegexMatch(NewPattern(call.list).regex, call.value))
    /\ UNCHANGED <<resolverVars, call, text, out, us, procs, io, slices>>

\* (&Host{Patterns: ...}).Matches(alias)
CallHostMatches ==
    /\ call.fn = "Host.Matches"
    /\ ~answer.done
    /\ answer' = Returned(Matches(Host(call.list, <<>>), call.value))
    /\ UNCHANGED <<resolverVars, call, text, out, us, procs, io, slices>>

\* matchPatternList(value, list, caseInsensitive)
CallMatchPatternList ==
    /\ call.fn = "matchPatternList"
    /\ ~answer.done
    /\ answer' = Returned(matchPatternList(call.value, call.list, call.fold))
    /\ UNCHANGED <<resolverVars, call, text, out, us, procs, io, slices>>

NextPatterns == CallNewPattern \/ CallHostMatches \/ CallMatchPatternList

SpecPatterns == InitPatterns /\ [][NextPatterns]_vars

(***************************************************************************)
(* C13.  Host.Matches and matchPatternList answer true exactly when no     *)
(* negated pattern of the list matches the value and at least one          *)
(* non-negated pattern matches it; so a matching negated pattern makes the *)
(* list fail whatever its position and whatever else matches.  A pattern   *)
(* of a Host is negated when NewPattern found a leading "!", a fragment of *)
(* a list when it begins with "!"; case is folded when the call asks.      *)
(***************************************************************************)
HostListMatches(patterns, v) ==
    LET compiled == [i \in 1..Len(patterns) |-> NewPattern(patterns[i])]
        hit(i) == RegexMatch(compiled[i].regex, v)
    IN  /\ ~\E i \in 1..Len(patterns) : compiled[i].not /\ hit(i)
        /\ \E i \in 1..Len(patterns) : ~compiled[i].not /\ hit(i)

FragmentListMatches(list, value, fold) ==
    LET parts == splitPatternList(list)
        v == IF fold THEN ToLower(value) ELSE value
        negated(i) == HasPrefix(parts[i], <<"!">>)
        body(i) == IF negated(i) THEN Tail(parts[i]) ELSE parts[i]
        hit(i) == matchPattern(v, IF fold THEN ToLower(body(i)) ELSE body(i))
    IN  /\ ~\E i \in 1..Len(parts) : negated(i) /\ hit(i)
        /\ \E i \in 1..Len(parts) : ~negated(i) /\ hit(i)

C13_PatternListSemantics ==
    answer.done =>
        /\ call.fn = "Host.Matches" => (answer.value = HostListMatches(call.list, call.value))
        /\ call.fn = "matchPatternList" =>
              (answer.value = FragmentListMatches(call.list, call.value, call.fold))

\* Host f* !foo against foo: the first pattern matches, the negated one after
\* it matches too, and Matches answered false.
C13_Witness ==
    /\ answer.done
    /\ call.fn = "Host.Matches"
    /\ call.list = <<g_fstar, g_notfoo>>
    /\ call.value = g_foo
    /\ answer.value = FALSE

(***************************************************************************)
(* C14.  A value matches a compiled pattern only if the value can be cut   *)
(* so that every "*" of the pattern takes zero or more characters, every   *)
(* "?" exactly one character, and every other character itself.           *)
(***************************************************************************)
RECURSIVE GlobMatch(_, _)
GlobMatch(glob, v) ==
    IF glob = <<>>
    THEN v = <<>>
    ELSE IF Head(glob) = "*"
         THEN \/ GlobMatch(Tail(glob), v)
              \/ v # <<>> /\ GlobMatch(glob, Tail(v))
         ELSE IF Head(glob) = "?"
              THEN v # <<>> /\ GlobMatch(Tail(glob), Tail(v))
              ELSE v # <<>> /\ Head(v) = Head(glob) /\ GlobMatch(Tail(glob), Tail(v))

C14_QuestionMarkOneCharacter ==
    (answer.done /\ call.fn = "NewPattern" /\ answer.value) =>
        GlobMatch(NewPattern(call.list).str, call.value)

(***************************************************************************)
(* Decoded documents.  A decoded block or node carries, besides what       *)
(* Resolve reads, the trivia String writes back: leading space, the "="    *)
(* form, the space before a comment and the comment.                       *)
(***************************************************************************)
s_Host == <<"H", "o", "s", "t">>
s_Match == <<"M", "a", "t", "c", "h">>
s_Include == <<"I", "n", "c", "l", "u", "d", "e">>

\* strings.Repeat(" ", n)
Spaces(n) == [i \in 1..n |-> " "]

HostOf(patterns, nodes, EOLComment, spaceBeforeComment, hasEquals, leadingSpace, implicit) ==
    [kind |-> "Host", Patterns |-> patterns, Criteria |-> <<>>, Nodes |-> nodes,
     EOLComment |-> EOLComment, spaceBeforeComment |-> spaceBeforeComment,
     hasEquals |-> hasEquals, leadingSpace |-> leadingSpace, implicit |-> implicit]

MatchOf(criteria, nodes, EOLComment, spaceBeforeComment, hasEquals, leadingSpace) ==
    [kind |-> "Match", Patterns |-> <<>>, Criteria |-> criteria, Nodes |-> nodes,
     EOLComment |-> EOLComment, spaceBeforeComment |-> spaceBeforeComment,
     hasEquals |-> hasEquals, leadingSpace |-> leadingSpace, implicit |-> FALSE]

KVOf(key, value, spaceAfterValue, comment, hasEquals, leadingSpace) ==
    [kind |-> "KV", Key |-> key, Value |-> value, matches |-> <<>>, files |-> <<>>,
     spaceAfterValue |-> spaceAfterValue, Comment |-> comment, hasEquals |-> hasEquals,
     leadingSpace |-> leadingSpace, directives |-> <<>>]

EmptyOf(comment, leadingSpace) ==
    [kind |-> "Empty", Key |-> <<>>, Value |-> <<>>, matches |-> <<>>, files |-> <<>>,
     spaceAfterValue |-> <<>>, Comment |-> comment, hasEquals |-> FALSE,
     leadingSpace |-> leadingSpace, directives |-> <<>>]

IncludeOf(directives, matches, files, comment, hasEquals, leadingSpace) ==
    [kind |-> "Include", Key |-> <<>>, Value |-> <<>>, matches |-> matches, files |-> files,
     spaceAfterValue |-> <<>>, Comment |-> comment, hasEquals |-> hasEquals,
     leadingSpace |-> leadingSpace, directives |-> directives]

\* newConfig's implicit "Host *".
implicitHost == HostOf(<<NewPattern(<<"*">>)>>, <<>>, <<>>, <<>>, FALSE, 0, TRUE)

equalsForm(hasEquals) == IF hasEquals THEN <<" ", "=", " ">> ELSE <<" ">>

KVString(k) ==
    Spaces(k.leadingSpace) \o k.Key \o equalsForm(k.hasEquals) \o k.Value \o k.spaceAfterValue
        \o (IF k.Comment # <<>> THEN <<"#">> \o k.Comment ELSE <<>>)

EmptyString(e) ==
    IF e.Comment = <<>> THEN <<>> ELSE Spaces(e.leadingSpace) \o <<"#">> \o e.Comment

IncludeString(inc) ==
    Spaces(inc.leadingSpace) \o s_Include \o equalsForm(inc.hasEquals)
        \o JoinWith(inc.directives, " ")
        \o (IF inc.Comment # <<>> THEN <<" ", "#">> \o inc.Comment ELSE <<>>)

NodeString(n) ==
    CASE n.kind = "KV" -> KVString(n)
      [] n.kind = "Empty" -> EmptyString(n)
      [] n.kind = "Include" -> IncludeString(n)

NodesString(nodes) == Concat([i \in 1..Len(nodes) |-> NodeString(nodes[i]) \o <<"\n">>])

eolComment(b) ==
    b.spaceBeforeComment \o (IF b.EOLComment # <<>> THEN <<"#">> \o b.EOLComment ELSE <<>>)

\* Pattern.String is the field str.
HostString(h) ==
    (IF ~h.implicit
     THEN Spaces(h.leadingSpace) \o s_Host \o equalsForm(h.hasEquals)
              \o JoinWith([i \in 1..Len(h.Patterns) |-> h.Patterns[i].str], " ")
              \o eolComment(h) \o <<"\n">>
     ELSE <<>>)
        \o NodesString(h.Nodes)

MatchString(m) ==
    Spaces(m.leadingSpace) \o s_Match \o equalsForm(m.hasEquals) \o m.Criteria
        \o eolComment(m) \o <<"\n">> \o NodesString(m.Nodes)

BlockString(b) == IF b.kind = "Host" THEN HostString(b) ELSE MatchString(b)

marshal(c) ==
    LET blocks == effectiveBlocks(c)
    IN  Concat([i \in 1..Len(blocks) |-> BlockString(blocks[i])])

ConfigString(c) == marshal(c)

(***************************************************************************)
(* The lexer and the parser, after the rules the specification gives for   *)
(* them: a line is its leading whitespace, then nothing, a comment, or a   *)
(* keyword, a separator (whitespace, optionally around one "="), a value   *)
(* up to an unescaped "#" outside quotes, and a comment.                   *)
(***************************************************************************)
Blanks == {" ", "\t"}

\* The text cut at its newlines; a final newline ends the last line.
RECURSIVE splitLines(_, _)
splitLines(bytes, cur) ==
    IF bytes = <<>>
    THEN IF cur = <<>> THEN <<>> ELSE <<cur>>
    ELSE IF Head(bytes) = "\n"
         THEN <<cur>> \o splitLines(Tail(bytes), <<>>)
         ELSE splitLines(Tail(bytes), Append(cur, Head(bytes)))

RECURSIVE keywordOf(_)
keywordOf(s) ==
    IF s = <<>> \/ Head(s) \in Blanks \/ Head(s) = "="
    THEN <<>>
    ELSE <<Head(s)>> \o keywordOf(Tail(s))

\* 1-based index of the "#" that begins the comment, 0 when there is none.
RECURSIVE commentStart(_, _, _, _)
commentStart(s, i, inQuotes, escaped) ==
    IF i > Len(s)
    THEN 0
    ELSE IF escaped
         THEN commentStart(s, i + 1, inQuotes, FALSE)
         ELSE CASE s[i] = "\\" -> commentStart(s, i + 1, inQuotes, TRUE)
                [] s[i] = "\"" -> commentStart(s, i + 1, ~inQuotes, FALSE)
                [] s[i] = "#" /\ ~inQuotes -> i
                [] OTHER -> commentStart(s, i + 1, inQuotes, FALSE)

lexLine(line) ==
    LET body == TrimLeft(line)
        lead == Len(line) - Len(body)
        key == keywordOf(body)
        afterKey == TrimLeft(SubSeq(body, Len(key) + 1, Len(body)))
        hasEquals == afterKey # <<>> /\ Head(afterKey) = "="
        rest == IF hasEquals THEN TrimLeft(Tail(afterKey)) ELSE afterKey
        hash == commentStart(rest, 1, FALSE, FALSE)
        region == IF hash = 0 THEN rest ELSE SubSeq(rest, 1, hash - 1)
        value == TrimRight(region)
    IN  IF body = <<>>
        THEN [kind |-> "blank", lead |-> lead, key |-> <<>>, hasEquals |-> FALSE,
              value |-> <<>>, space |-> <<>>, comment |-> <<>>]
        ELSE IF Head(body) = "#"
             THEN [kind |-> "comment", lead |-> lead, key |-> <<>>, hasEquals |-> FALSE,
                   value |-> <<>>, space |-> <<>>, comment |-> Tail(body)]
             ELSE [kind |-> "kv", lead |-> lead, key |-> key, hasEquals |-> hasEquals,
                   value |-> value,
                   space |-> SubSeq(region, Len(value) + 1, Len(region)),
                   comment |-> IF hash = 0 THEN <<>> ELSE SubSeq(rest, hash + 1, Len(rest))]

\* The node or block a line becomes.
lineBlock(t) ==
    IF EqualFold(t.key, s_Host)
    THEN LET tokens == FieldsFunc(t.value, Blanks)
         IN  HostOf([i \in 1..Len(tokens) |-> NewPattern(tokens[i])], <<>>, t.comment,
                    t.space, t.hasEquals, t.lead, FALSE)
    ELSE MatchOf(t.value, <<>>, t.comment, t.space, t.hasEquals, t.lead)

lineNode(t) ==
    IF t.kind = "kv"
    THEN KVOf(t.key, t.value, t.space, t.comment, t.hasEquals, t.lead)
    ELSE EmptyOf(t.comment, t.lead)

opensBlock(t) == t.kind = "kv" /\ (EqualFold(t.key, s_Host) \/ EqualFold(t.key, s_Match))

isInclude(t) == t.kind = "kv" /\ EqualFold(t.key, s_Include)

(***************************************************************************)
(* The files on disk, and the loading of a file with the files its         *)
(* Include lines name.  A relative Include path is joined to /etc/ssh for  *)
(* a system file and to $HOME/.ssh otherwise; a path without wildcard      *)
(* globs to itself when the file exists and to nothing when it does not.   *)
(***************************************************************************)
maxRecurseDepth == 5

ErrDepthExceeded == "ssh_config: max recurse depth exceeded"

\* The *PathError of os.ReadFile for a name that is no file.
ErrNotExist == "open: no such file or directory"

\* os.IsNotExist that recognises nothing.
IsNotExistNever(err) == FALSE

\* os.IsNotExist
IsNotExist(err) == err = ErrNotExist

etc_ssh == <<"/", "e", "t", "c", "/", "s", "s", "h">>
dot_ssh == <<".", "s", "s", "h">>

\* filepath.Join(dir, name)
Join(dir, name) == dir \o <<"/">> \o name

homedir == env_HomeDir

i_r == <<"I", "n", "c", "l", "u", "d", "e", " ", "r">>
i_a == <<"I", "n", "c", "l", "u", "d", "e", " ", "a">>
i_b == <<"I", "n", "c", "l", "u", "d", "e", " ", "b">>
i_c1 == <<"I", "n", "c", "l", "u", "d", "e", " ", "c", "1">>
i_c2 == <<"I", "n", "c", "l", "u", "d", "e", " ", "c", "2">>
i_c3 == <<"I", "n", "c", "l", "u", "d", "e", " ", "c", "3">>
i_c4 == <<"I", "n", "c", "l", "u", "d", "e", " ", "c", "4">>
i_c5 == <<"I", "n", "c", "l", "u", "d", "e", " ", "c", "5">>
i_c6 == <<"I", "n", "c", "l", "u", "d", "e", " ", "c", "6">>
i_s1 == <<" ", "I", "n", "c", "l", "u", "d", "e", " ", "=", " ", "s", "1", " ", "n", "o">>
t_host_foo == <<"H", "o", "s", "t", " ", "f", "o", "o">>
t_host_bar == <<"H", "o", "s", "t", " ", "b", "a", "r">>
t_match_final == <<"M", "a", "t", "c", "h", " ", "f", "i", "n", "a", "l">>
t_port == <<"\t", "P", "o", "r", "t", " ", "2", "2", "2", "2">>
t_user_b == <<" ", "U", "s", "e", "r", " ", "b">>
t_user_s == <<"U", "s", "e", "r", " ", "=", " ", "s", " ", "#", "s">>
t_note == <<"#", " ", "n">>
f_plain == <<"/", "t", "/", "p">>
f_loop == <<"/", "t", "/", "r">>
f_chain == <<"/", "t", "/", "c">>
f_none == <<"/", "t", "/", "x">>
f_ssh_config == Join(etc_ssh, <<"s", "s", "h", "_", "c", "o", "n", "f", "i", "g">>)

inUserDir(name) == Join(Join(homedir, dot_ssh), name)

FileText(lines) == Concat([i \in 1..Len(lines) |-> lines[i] \o <<"\n">>])

\* The files that exist, each with its bytes.
Files ==
    {<<f_plain, FileText(<<t_note, t_host_foo, t_port, t_match_final, t_user_b>>)>>,
     <<f_loop, FileText(<<t_host_foo, i_r>>)>>,
     <<inUserDir(<<"r">>), FileText(<<t_host_foo, i_r>>)>>,
     <<inUserDir(<<"a">>), FileText(<<i_b>>)>>,
     <<inUserDir(<<"b">>), FileText(<<t_user_b, i_a>>)>>,
     <<f_chain, FileText(<<i_c1>>)>>,
     <<inUserDir(<<"c", "1">>), FileText(<<t_host_bar, i_c2>>)>>,
     <<inUserDir(<<"c", "2">>), FileText(<<i_c3>>)>>,
     <<inUserDir(<<"c", "3">>), FileText(<<i_c4>>)>>,
     <<inUserDir(<<"c", "4">>), FileText(<<i_c5>>)>>,
     <<inUserDir(<<"c", "5">>), FileText(<<i_c6>>)>>,
     <<inUserDir(<<"c", "6">>), FileText(<<t_user_b>>)>>,
     <<f_ssh_config, FileText(<<t_user_s, i_s1>>)>>,
     <<Join(etc_ssh, <<"s", "1">>), FileText(<<t_port>>)>>}

Exists(filename) == \E f \in Files : f[1] = filename

ReadFile(filename) == (CHOOSE f \in Files : f[1] = filename)[2]

\* filepath.Glob(path) for a path without wildcard.
Glob(path) == IF Exists(path) THEN <<path>> ELSE <<>>

isSystem(filename) == HasPrefix(filename, etc_ssh)

RECURSIVE removeDupsFrom(_, _)
removeDupsFrom(arr, seen) ==
    IF arr = <<>>
    THEN <<>>
    ELSE IF Head(arr) \in seen
         THEN removeDupsFrom(Tail(arr), seen)
         ELSE <<Head(arr)>> \o removeDupsFrom(Tail(arr), seen \cup {Head(arr)})

removeDups(arr) == removeDupsFrom(arr, {})

includePath(directive, system) ==
    IF Head(directive) = "/"
    THEN directive
    ELSE IF system THEN Join(etc_ssh, directive) ELSE inUserDir(directive)

NilConfig == [Hosts |-> <<>>, Blocks |-> <<>>]

\* What a parse returns: the error or the Config, and the files it read.
Failed(err, reads) == [err |-> err, cfg |-> NilConfig, reads |-> reads]

RECURSIVE parseWithDepth(_, _)
RECURSIVE decodeBytes(_, _, _)
RECURSIVE parseLines(_, _, _, _, _, _)
RECURSIVE NewInclude(_, _, _, _, _, _)
RECURSIVE parseMatches(_, _, _, _, _)

\* r with filename read before the files r read.
readFirst(filename, r) == [r EXCEPT !.reads = <<filename>> \o @]

parseWithDepth(filename, depth) ==
    IF ~Exists(filename)
    THEN Failed(ErrNotExist, <<>>)
    ELSE readFirst(filename, decodeBytes(ReadFile(filename), isSystem(filename), depth))

\* What decodeBytes returns when the parser ended as r: an error raised by
\* the parser is returned in place of the Config.
decoded(r) ==
    IF r.err # ""
    THEN Failed(r.err, r.reads)
    ELSE [err |-> "", cfg |-> Config(r.blocks), reads |-> r.reads]

\* parseSSH(lexSSH(b), system, depth)
decodeBytes(b, system, depth) ==
    decoded(parseLines(splitLines(b, <<>>), 1, <<implicitHost>>, system, depth, <<>>))

\* blocks with node added to the last block.
withNode(blocks, node) ==
    [blocks EXCEPT ![Len(blocks)] = [@ EXCEPT !.Nodes = Append(@, node)]]

\* The parser after an Include line whose NewInclude returned inc.
includeParsed(lines, i, blocks, system, depth, reads, inc) ==
    IF inc.err # ""
    THEN [err |-> inc.err, blocks |-> <<>>, reads |-> reads \o inc.reads]
    ELSE parseLines(lines, i + 1, withNode(blocks, inc.node), system, depth,
                    reads \o inc.reads)

\* The parser at the line lexed as t: a Host or Match line opens a block, an
\* Include line is loaded one level deeper, any other line is a node of the
\* last block.
parseLine(lines, i, blocks, system, depth, reads, t) ==
    IF opensBlock(t)
    THEN parseLines(lines, i + 1, Append(blocks, lineBlock(t)), system, depth, reads)
    ELSE IF isInclude(t)
         THEN includeParsed(lines, i, blocks, system, depth, reads,
                            NewInclude(FieldsFunc(t.value, Blanks), t.hasEquals, t.lead,
                                       t.comment, system, depth + 1))
         ELSE parseLines(lines, i + 1, withNode(blocks, lineNode(t)), system, depth, reads)

parseLines(lines, i, blocks, system, depth, reads) ==
    IF i > Len(lines)
    THEN [err |-> "", blocks |-> blocks, reads |-> reads]
    ELSE parseLine(lines, i, blocks, system, depth, reads, lexLine(lines[i]))

\* What NewInclude returns when its matches were parsed as parsed.
included(directives, hasEquals, leadingSpace, comment, matches, parsed) ==
    IF parsed.err # ""
    THEN [err |-> parsed.err, node |-> EmptyOf(<<>>, 0), reads |-> parsed.reads]
    ELSE [err |-> "",
          node |-> IncludeOf(directives, matches, parsed.files, comment, hasEquals,
                             leadingSpace),
          reads |-> parsed.reads]

\* The loop of NewInclude over the directives: the matches, without duplicates.
includeMatches(directives, system) ==
    removeDups(Concat([i \in 1..Len(directives) |->
                          Glob(includePath(directives[i], system))]))

\* NewInclude allowing one more level.
NewIncludeDeeper(directives, hasEquals, leadingSpace, comment, system, depth) ==
    IF depth > maxRecurseDepth + 1
    THEN [err |-> ErrDepthExceeded, node |-> EmptyOf(<<>>, 0), reads |-> <<>>]
    ELSE included(directives, hasEquals, leadingSpace, comment,
                  includeMatches(directives, system),
                  parseMatches(includeMatches(directives, system), 1, <<>>, depth, <<>>))

NewInclude(directives, hasEquals, leadingSpace, comment, system, depth) ==
    IF depth > maxRecurseDepth
    THEN [err |-> ErrDepthExceeded, node |-> EmptyOf(<<>>, 0), reads |-> <<>>]
    ELSE included(directives, hasEquals, leadingSpace, comment,
                  includeMatches(directives, system),
                  parseMatches(includeMatches(directives, system), 1, <<>>, depth, <<>>))

\* The loop of NewInclude over matches after match i was parsed as r.
matchParsed(matches, i, files, depth, reads, r) ==
    IF r.err # ""
    THEN [err |-> r.err, files |-> <<>>, reads |-> reads \o r.reads]
    ELSE parseMatches(matches, i + 1, Append(files, r.cfg), depth, reads \o r.reads)

parseMatches(matches, i, files, depth, reads) ==
    IF i > Len(matches)
    THEN [err |-> "", files |-> files, reads |-> reads]
    ELSE matchParsed(matches, i, files, depth, reads, parseWithDepth(matches[i], depth))

parseFile(filename) == parseWithDepth(filename, 0)

\* strings.ReplaceAll(text, "\t", " ")
tabToSpace(bytes) == [i \in 1..Len(bytes) |-> IF bytes[i] = "\t" THEN " " ELSE bytes[i]]

(***************************************************************************)
(* Decode and String on their own: the bytes are lines of a configuration  *)
(* file, each ended by a newline.                                          *)
(***************************************************************************)
l_host_foo == <<"H", "o", "s", "t", " ", "f", "o", "o">>
l_host_neg == <<"H", "o", "s", "t", " ", "*", " ", "!", "f", "o", "o">>
l_host_eq == <<"H", "o", "s", "t", " ", "=", " ", "b", "?", "r", " ", "#", " ", "c">>
l_match == <<"M", "a", "t", "c", "h", " ", "h", "o", "s", "t", "=", "f", "o", "o", " ", " ",
             "#", "c">>
l_match_neg == <<"M", "a", "t", "c", "h", " ", "!", "h", "o", "s", "t", " ", "f", "o", "o">>
l_port_tab == <<"\t", "P", "o", "r", "t", " ", "2", "2">>
l_user_eq == <<" ", " ", "U", "s", "e", "r", " ", "=", " ", "a", " ", "#", "u">>
l_user == <<"U", "s", "e", "r", " ", "b">>
l_comment == <<" ", "#", " ", "n">>
l_blank == <<>>

Lines == {l_host_foo, l_host_neg, l_host_eq, l_match, l_match_neg, l_port_tab, l_user_eq,
          l_user, l_comment, l_blank}

\* The most lines of a text.
MaxLines == 3

Texts == {Concat([i \in 1..Len(ls) |-> ls[i] \o <<"\n">>]) : ls \in SeqsUpTo(Lines, MaxLines)}

InitDecode ==
    /\ pc = "start"
    /\ pass = "initial"
    /\ state = EmptyState
    /\ cfgIdx = 0
    /\ stack = <<>>
    /\ result = NilResult
    /\ canonDone = FALSE
    /\ ret = [result |-> NilResult, err |-> ""]
    /\ trace = <<>>
    /\ matchLog = <<>>
    /\ canonCalls = <<>>
    /\ passes = <<>>
    /\ configs = <<>>
    /\ ctx = Context(g_foo, "nil", "nil")
    /\ options = resolveOptions(FALSE, FALSE, NoCanonicalize)
    /\ call = NoCall
    /\ answer = Pending
    /\ out = NoOutput
    /\ us = NoSettings
    /\ procs = NoCallers
    /\ io = NoIO
    /\ slices = NoSlices
    /\ \E bytes \in Texts : text = [given |-> TRUE, bytes |-> bytes]

walkVars == <<ctx, options, pc, pass, state, cfgIdx, stack, result, canonDone, ret, trace,
              matchLog, canonCalls, passes>>

\* cfg, err := Decode(r)
Decode ==
    /\ text.given
    /\ configs = <<>>
    /\ configs' = <<decodeBytes(text.bytes, FALSE, 0).cfg>>
    /\ UNCHANGED <<walkVars, call, answer, text, out, us, procs, io, slices>>

\* cfg.String()
CallString ==
    /\ configs # <<>>
    /\ ~out.done
    /\ out' = [done |-> TRUE, bytes |-> ConfigString(configs[1])]
    /\ UNCHANGED <<configs, walkVars, call, answer, text, us, procs, io, slices>>

NextDecode == Decode \/ CallString

SpecDecode == InitDecode /\ [][NextDecode]_vars

(***************************************************************************)
(* C15.  The String of a document decoded from a text is that text with    *)
(* each tab replaced by one space: header lines with their pattern tokens  *)
(* as written (a leading "!" included), the "=" or space separator,        *)
(* inline comments and the order of the nodes are reproduced.              *)
(***************************************************************************)
C15_RoundTrip ==
    (text.given /\ out.done) => (out.bytes = tabToSpace(text.bytes))

(***************************************************************************)
(* A decoded Config whose Hosts and Blocks the caller changes before it    *)
(* calls Resolve and String.  The changes are those of the slices:         *)
(* appending a block to one of them, and emptying Blocks.  The documents   *)
(* have no Include, and Resolve runs one pass, so the walk is Begin,       *)
(* EnterConfig, the headers, the nodes, FinishPass and Return.             *)
(***************************************************************************)
l_host_star == <<"H", "o", "s", "t", " ", "*">>
l_match_all == <<"M", "a", "t", "c", "h", " ", "a", "l", "l">>
h_only == <<"o", "n", "l", "y">>
v_only == <<"h", "o">>
v_block == <<"b", "l">>

MutationTexts ==
    {Concat([i \in 1..Len(ls) |-> ls[i] \o <<"\n">>]) :
        ls \in {<<l_host_star, l_port_tab>>,
                <<l_user, l_host_foo, l_port_tab>>,
                <<l_match_all, l_comment, l_user_eq>>}}

\* The longest Hosts or Blocks a caller builds.
MaxHosts == 3

\* &Host{Patterns: []*Pattern{pattern}, Nodes: []Node{&KV{Key: "User", Value: value, leadingSpace: 2}}}
hostLiteral(pattern, value) ==
    HostOf(<<NewPattern(pattern)>>, <<KVOf(k_User, value, <<>>, <<>>, FALSE, 2)>>,
           <<>>, <<>>, FALSE, 0, FALSE)

InitMutate ==
    /\ pc = "start"
    /\ pass = "initial"
    /\ state = EmptyState
    /\ cfgIdx = 0
    /\ stack = <<>>
    /\ result = NilResult
    /\ canonDone = FALSE
    /\ ret = [result |-> NilResult, err |-> ""]
    /\ trace = <<>>
    /\ matchLog = <<>>
    /\ canonCalls = <<>>
    /\ passes = <<>>
    /\ call = NoCall
    /\ answer = Pending
    /\ out = NoOutput
    /\ us = NoSettings
    /\ procs = NoCallers
    /\ io = NoIO
    /\ slices = NoSlices
    /\ \E bytes \in MutationTexts :
          /\ text = [given |-> TRUE, bytes |-> bytes]
          /\ configs = <<decodeBytes(bytes, FALSE, 0).cfg>>
    /\ \E h \in {h_only, h_foo} : ctx = Context(h, "nil", "nil")
    /\ options = resolveOptions(FALSE, FALSE, NoCanonicalize)

Untouched == pc = "start" /\ ~out.done

\* cfg.Hosts = append(cfg.Hosts, host)
AppendHosts ==
    /\ Untouched
    /\ Len(configs[1].Hosts) < MaxHosts
    /\ configs' = [configs EXCEPT ![1].Hosts = Append(@, hostLiteral(h_only, v_only))]
    /\ UNCHANGED <<walkVars, call, answer, text, out, us, procs, io, slices>>

\* cfg.Blocks = append(cfg.Blocks, host)
AppendBlocks ==
    /\ Untouched
    /\ Len(configs[1].Blocks) < MaxHosts
    /\ configs' = [configs EXCEPT ![1].Blocks = Append(@, hostLiteral(h_only, v_block))]
    /\ UNCHANGED <<walkVars, call, answer, text, out, us, procs, io, slices>>

\* cfg.Blocks = nil
ClearBlocks ==
    /\ Untouched
    /\ configs[1].Blocks # <<>>
    /\ configs' = [configs EXCEPT ![1].Blocks = <<>>]
    /\ UNCHANGED <<walkVars, call, answer, text, out, us, procs, io, slices>>

NextMutate ==
    \/ AppendHosts
    \/ AppendBlocks
    \/ ClearBlocks
    \/ CallString
    \/ Begin
    \/ EnterConfig
    \/ EnterHost
    \/ EnterMatch
    \/ ApplyKV
    \/ SkipEmpty
    \/ FinishPass
    \/ Return

SpecMutate == InitMutate /\ [][NextMutate]_vars

(***************************************************************************)
(* C16.  Resolve and String traverse the same block sequence of a Config:  *)
(* Blocks when it is non-empty, otherwise Hosts.  The directives Resolve   *)
(* has applied when the pass ends are, in order, the key/value nodes of    *)
(* that sequence, and String is the concatenation of its blocks; so a      *)
(* block appended only to Hosts shows in neither while Blocks is           *)
(* non-empty, and in both once Blocks is empty.                            *)
(***************************************************************************)
Traversed(c) == IF Len(c.Blocks) > 0 THEN c.Blocks ELSE c.Hosts

KVsOf(blocks) ==
    LET kvs == Concat([i \in 1..Len(blocks) |->
                          SelectSeq(blocks[i].Nodes, LAMBDA n : n.kind = "KV")])
    IN  [i \in 1..Len(kvs) |-> <<kvs[i].Key, kvs[i].Value>>]

Applied == [i \in 1..Len(trace) |-> <<trace[i].key, trace[i].value>>]

HostsOnly(c) == \E i \in 1..Len(c.Hosts) : c.Hosts[i] = hostLiteral(h_only, v_only)

C16_SameBlockSequence ==
    /\ stack # <<>> => stack[1].blocks = Traversed(configs[1])
    /\ pc \in {"passEnd", "done"} => Applied = KVsOf(Traversed(configs[1]))
    /\ out.done =>
          out.bytes = Concat([i \in 1..Len(Traversed(configs[1])) |->
                                 BlockString(Traversed(configs[1])[i])])
    /\ (pc = "done" /\ HostsOnly(configs[1])) =>
          ((\E i \in 1..Len(trace) : trace[i].value = v_only) <=> configs[1].Blocks = <<>>)

\* A Host appended to Hosts only, Blocks still holding the decoded blocks
\* and an appended one: Resolve for the host "only" returned the User of the
\* block appended to Blocks, and String was called.
C16_Witness ==
    /\ pc = "done"
    /\ out.done
    /\ HostsOnly(configs[1])
    /\ Len(configs[1].Blocks) > 0
    /\ ctx.HostArg = h_only
    /\ ret.err = ""
    /\ \E k \in DOMAIN ret.result.values : ret.result.values[k] = <<v_block>>

(***************************************************************************)
(* UserSettings.Resolve called by several goroutines.  doLoadConfigs runs  *)
(* its body under sync.Once: the first caller runs it, a caller arriving   *)
(* meanwhile waits, a later one passes.  The body is cut at its file       *)
(* loads.  resolveConfigs touches nothing the callers share, so the        *)
(* callers run it one after the other on the variables of the walk.        *)
(***************************************************************************)
\* The most goroutines calling Resolve.
MaxCallers == 2

Caller(c) == [at |-> "idle", ctx |-> c, err |-> "", result |-> NilResult]

s_config == <<"c", "o", "n", "f", "i", "g">>

\* userConfigFinder() and systemConfigFinder(), the defaults.
userConfigFinder == inUserDir(s_config)

systemConfigFinder == f_ssh_config

UserFiles == {<<>>, f_plain, f_loop, f_chain, f_none, inUserDir(<<"c", "1">>),
              inUserDir(<<"a">>)}

CustomFiles == {<<>>, f_plain, f_loop, f_none}

InitLoad ==
    /\ pc = "idle"
    /\ pass = "initial"
    /\ state = EmptyState
    /\ cfgIdx = 0
    /\ stack = <<>>
    /\ result = NilResult
    /\ canonDone = FALSE
    /\ ret = [result |-> NilResult, err |-> ""]
    /\ trace = <<>>
    /\ matchLog = <<>>
    /\ canonCalls = <<>>
    /\ passes = <<>>
    /\ configs = <<>>
    /\ call = NoCall
    /\ answer = Pending
    /\ text = NoText
    /\ out = NoOutput
    /\ io = NoIO
    /\ slices = NoSlices
    /\ \E h \in {h_foo, h_bar} :
          /\ ctx = Context(h, "nil", "nil")
          /\ \E n \in 1..MaxCallers : procs = [p \in 1..n |-> Caller(Context(h, "nil", "nil"))]
    /\ \E o \in {resolveOptions(FALSE, FALSE, NoCanonicalize),
                 resolveOptions(TRUE, TRUE, CanonicalizeTo(h_bar))} : options = o
    /\ \E ignoreErrors \in BOOLEAN :
          \/ \E f \in CustomFiles :
                us = UserSettings(ignoreErrors, Finder(f), NoFinder, NoFinder)
          \/ \E f \in UserFiles, system \in {NoFinder, Finder(<<>>)} :
                us = UserSettings(ignoreErrors, NoFinder, Finder(f), system)
          \/ us = UserSettings(ignoreErrors, NoFinder, NoFinder, NoFinder)

loadVars == <<configs, ctx, options, pc, pass, state, cfgIdx, stack, result, canonDone, ret,
              trace, matchLog, canonCalls, passes, call, answer, text, out, slices>>

\* sync.Once runs the body for the caller that finds it not started.
onceStartsAnyTime(loadConfigs) == loadConfigs # "done"

onceStarts(loadConfigs) == loadConfigs = "idle"

\* u.loadConfigs.Do(...): the caller starts the body, or passes when it is done.
OnceDo(p) ==
    /\ procs[p].at = "idle"
    /\ IF onceStarts(us.loadConfigs)
       THEN /\ us' = [us EXCEPT !.loadConfigs = "running",
                                !.step = IF us.customConfigFinder.set
                                         THEN "custom" ELSE "user"]
            /\ procs' = [procs EXCEPT ![p].at = "loading"]
            /\ io' = [io EXCEPT !.loads = @ + 1]
       ELSE /\ us.loadConfigs = "done"
            /\ procs' = [procs EXCEPT ![p].at = "loaded"]
            /\ UNCHANGED <<us, io>>
    /\ UNCHANGED loadVars

\* The *Config parseFile returned: nil with an error.
Loaded(r) == [ok |-> r.err = "", cfg |-> r.cfg]

invoked(finder, filename, r) ==
    [io EXCEPT !.finders = Append(@, finder), !.reads = @ \o r.reads]

\* The body with a customConfigFinder: that file alone, any error kept.
LoadCustom(p) ==
    /\ procs[p].at = "loading"
    /\ us.step = "custom"
    /\ \E filename \in {us.customConfigFinder.returns} :
       \E r \in {parseFile(filename)} :
          /\ us' = [us EXCEPT !.customConfig = Loaded(r),
                              !.onceErr = r.err,
                              !.step = "none", !.loadConfigs = "done"]
          /\ io' = invoked("custom", filename, r)
    /\ procs' = [procs EXCEPT ![p].at = "loaded"]
    /\ UNCHANGED loadVars

\* The body: the user config; an error other than "not exist" ends the load.
LoadUser(p) ==
    /\ procs[p].at = "loading"
    /\ us.step = "user"
    /\ \E filename \in {IF us.userConfigFinder.set
                        THEN us.userConfigFinder.returns ELSE userConfigFinder} :
       \E r \in {parseFile(filename)} :
          /\ io' = invoked("user", filename, r)
          /\ IF r.err # "" /\ ~IsNotExist(r.err)
             THEN /\ us' = [us EXCEPT !.userConfig = Loaded(r), !.onceErr = r.err,
                                      !.step = "none", !.loadConfigs = "done"]
                  /\ procs' = [procs EXCEPT ![p].at = "loaded"]
             ELSE /\ us' = [us EXCEPT !.userConfig = Loaded(r), !.step = "system"]
                  /\ UNCHANGED procs
    /\ UNCHANGED loadVars

\* The body: the system config, and the end of the load.
LoadSystem(p) ==
    /\ procs[p].at = "loading"
    /\ us.step = "system"
    /\ \E filename \in {IF us.systemConfigFinder.set
                        THEN us.systemConfigFinder.returns ELSE systemConfigFinder} :
       \E r \in {parseFile(filename)} :
          /\ io' = invoked("system", filename, r)
          /\ us' = [us EXCEPT !.systemConfig = Loaded(r),
                              !.onceErr = IF r.err # "" /\ ~IsNotExist(r.err)
                                          THEN r.err ELSE @,
                              !.step = "none", !.loadConfigs = "done"]
    /\ procs' = [procs EXCEPT ![p].at = "loaded"]
    /\ UNCHANGED loadVars

loadFailed == us.onceErr # "" /\ ~us.IgnoreErrors

\* return nil, u.onceErr
ReturnLoadError(p) ==
    /\ procs[p].at = "loaded"
    /\ loadFailed
    /\ procs' = [procs EXCEPT ![p].at = "done", ![p].err = us.onceErr]
    /\ UNCHANGED <<loadVars, us, io>>

\* The configs Resolve hands to resolveConfigs.
loadedConfigs ==
    IF us.customConfig.ok
    THEN <<us.customConfig.cfg>>
    ELSE (IF us.userConfig.ok THEN <<us.userConfig.cfg>> ELSE <<>>)
             \o (IF us.systemConfig.ok THEN <<us.systemConfig.cfg>> ELSE <<>>)

\* return resolveConfigs(ctx, opts, configs): the call.
CallResolveConfigs(p) ==
    /\ procs[p].at = "loaded"
    /\ ~loadFailed
    /\ pc = "idle"
    /\ procs' = [procs EXCEPT ![p].at = "resolving"]
    /\ configs' = loadedConfigs
    /\ ctx' = procs[p].ctx
    /\ pc' = "start"
    /\ UNCHANGED <<options, pass, state, cfgIdx, stack, result, canonDone, ret, trace,
                   matchLog, canonCalls, passes, call, answer, text, out, us, io, slices>>

\* return resolveConfigs(ctx, opts, configs): the return.
ReturnResolved(p) ==
    /\ procs[p].at = "resolving"
    /\ pc = "done"
    /\ procs' = [procs EXCEPT ![p].at = "done", ![p].err = ret.err,
                              ![p].result = ret.result]
    /\ pc' = "idle"
    /\ pass' = "initial"
    /\ state' = EmptyState
    /\ cfgIdx' = 0
    /\ stack' = <<>>
    /\ result' = NilResult
    /\ canonDone' = FALSE
    /\ ret' = [result |-> NilResult, err |-> ""]
    /\ trace' = <<>>
    /\ matchLog' = <<>>
    /\ canonCalls' = <<>>
    /\ passes' = <<>>
    /\ configs' = <<>>
    /\ UNCHANGED <<ctx, options, call, answer, text, out, us, io, slices>>

NextLoad ==
    \/ \E p \in DOMAIN procs : OnceDo(p)
    \/ \E p \in DOMAIN procs : LoadCustom(p)
    \/ \E p \in DOMAIN procs : LoadUser(p)
    \/ \E p \in DOMAIN procs : LoadSystem(p)
    \/ \E p \in DOMAIN procs : ReturnLoadError(p)
    \/ \E p \in DOMAIN procs : CallResolveConfigs(p)
    \/ \E p \in DOMAIN procs : ReturnResolved(p)
    \/ Begin
    \/ EnterConfig
    \/ EnterHost
    \/ EnterMatch
    \/ ApplyKV
    \/ SkipEmpty
    \/ EnterInclude
    \/ FinishPass
    \/ Canonicalize
    \/ StartFinalPass
    \/ Return

SpecLoad == InitLoad /\ [][NextLoad]_vars

(***************************************************************************)
(* C17.  Loading a file whose Include chain nests deeper than 5 levels (a  *)
(* file that includes itself, directly or through another, among them)    *)
(* ends with ErrDepthExceeded and no document, and that error reaches     *)
(* Resolve unchanged.  The chain is read off the Include lines of the      *)
(* files.                                                                  *)
(***************************************************************************)
Range(seq) == {seq[i] : i \in 1..Len(seq)}

\* The files the Include lines of filename name.
includesOf(filename) ==
    LET lines == splitLines(ReadFile(filename), <<>>)
        named(i) == IF isInclude(lexLine(lines[i]))
                    THEN Range(FieldsFunc(lexLine(lines[i]).value, Blanks))
                    ELSE {}
    IN  {g \in {includePath(d, isSystem(filename)) :
                   d \in UNION {named(i) : i \in 1..Len(lines)}} : Exists(g)}

\* An Include chain of n levels starts at filename.
RECURSIVE Nests(_, _)
Nests(filename, n) == n = 0 \/ \E g \in includesOf(filename) : Nests(g, n - 1)

NestsTooDeep(filename) == Exists(filename) /\ Nests(filename, 6)

\* The file each finder named, and the config kept for it.
slotFile(slot) ==
    CASE slot = "custom" -> us.customConfigFinder.returns
      [] slot = "user" -> IF us.userConfigFinder.set
                          THEN us.userConfigFinder.returns ELSE userConfigFinder
      [] slot = "system" -> IF us.systemConfigFinder.set
                            THEN us.systemConfigFinder.returns ELSE systemConfigFinder

slotConfig(slot) ==
    CASE slot = "custom" -> us.customConfig
      [] slot = "user" -> us.userConfig
      [] slot = "system" -> us.systemConfig

HasReturned(p) == procs[p].at = "done"

\* C17: a finder's file that nests too deep leaves no config and
\* ErrDepthExceeded as the load's error, which a Resolve that does not ignore
\* errors returns with no result.
C17_DepthExceededUnlessIgnored ==
    \A slot \in Range(io.finders) :
        NestsTooDeep(slotFile(slot)) =>
            /\ ~slotConfig(slot).ok
            /\ us.onceErr = ErrDepthExceeded
            /\ ~us.IgnoreErrors =>
                  \A p \in DOMAIN procs :
                      HasReturned(p) =>
                          procs[p].err = ErrDepthExceeded /\ procs[p].result = NilResult

\* The user config includes itself: it was read once and the included file
\* five times, the load kept ErrDepthExceeded, and every caller returned it.
C17_Witness ==
    /\ us.userConfigFinder = Finder(f_loop)
    /\ ~us.IgnoreErrors
    /\ io.reads = <<f_loop>> \o [i \in 1..5 |-> inUserDir(<<"r">>)]
    /\ us.onceErr = ErrDepthExceeded
    /\ Len(procs) = MaxCallers
    /\ \A p \in DOMAIN procs : procs[p].at = "done" /\ procs[p].err = ErrDepthExceeded

(***************************************************************************)
(* C18.  However the Resolve calls on one UserSettings interleave, the     *)
(* body of the load starts at most once and invokes each finder at most    *)
(* once; when the load failed and IgnoreErrors is false, every call that   *)
(* has returned returned the load's error and no result.                  *)
(***************************************************************************)
C18_LoadOnceSameError ==
    /\ io.loads <= 1
    /\ Cardinality(Range(io.finders)) = Len(io.finders)
    /\ (us.loadConfigs # "done") => \A p \in DOMAIN procs : ~HasReturned(p)
    /\ loadFailed =>
          \A p \in DOMAIN procs :
              HasReturned(p) => procs[p].err = us.onceErr /\ procs[p].result = NilResult

\* Two callers, a load that failed: one ran the load, both returned its error.
C18_Witness ==
    /\ Len(procs) = 2
    /\ loadFailed
    /\ io.loads = 1
    /\ Len(io.finders) = 1
    /\ \A p \in DOMAIN procs : HasReturned(p) /\ procs[p].err = us.onceErr

(***************************************************************************)
(* C19.  A finder that returns "" names no file: that config is skipped,   *)
(* the load records no error for it, and Resolve goes on with the other    *)
(* configs, or with none.                                                  *)
(***************************************************************************)
\* What loading the finder's file gives.
slotErr(slot) == parseFile(slotFile(slot)).err

\* Another finder's file failed with more than "not exist".
otherFailure(slot) ==
    \E o \in Range(io.finders) \ {slot} :
        slotErr(o) # "" /\ (o = "custom" \/ ~IsNotExist(slotErr(o)))

Skipped(slots) ==
    \A slot \in Range(io.finders) \cap slots :
        slotFile(slot) = <<>> =>
            /\ ~slotConfig(slot).ok
            /\ ~otherFailure(slot) =>
                  /\ us.onceErr = ""
                  /\ \A p \in DOMAIN procs :
                        /\ procs[p].at = "resolving" => configs = loadedConfigs
                        /\ HasReturned(p) =>
                              procs[p].err # ErrNotExist
                              /\ (loadedConfigs = <<>> /\ procs[p].err = "" =>
                                     procs[p].result.ok)

C19_EmptyFinderSkipped == Skipped({"user", "system", "custom"})

\* C19, for the user and the system finder.
C19_EmptyUserSystemSkipped == Skipped({"user", "system"})

C19_Witness ==
    /\ us.userConfigFinder = Finder(<<>>)
    /\ us.systemConfigFinder = Finder(<<>>)
    /\ io.finders = <<"user", "system">>
    /\ us.onceErr = ""
    /\ \A p \in DOMAIN procs : HasReturned(p) /\ procs[p].err = "" /\ procs[p].result.ok

(***************************************************************************)
(* Default and SupportsMultiple, called once on a keyword.                 *)
(***************************************************************************)
\* The chain of aliasFor from entry d: the entry it ends at, 0 when a hop is
\* missing, not supported, or was visited.
RECURSIVE followAlias(_, _)
followAlias(d, visited) ==
    IF Directives[d].AliasFor = <<>>
    THEN d
    ELSE LET nextName == ToLower(Directives[d].AliasFor)
         IN  IF nextName \in visited
             THEN 0
             ELSE IF byName(nextName) = 0
                     \/ Directives[byName(nextName)].Status # "supported"
                  THEN 0
                  ELSE followAlias(byName(nextName), visited \cup {nextName})

\* supportedDirective returning the entry of the keyword itself.
supportedDirectiveNoFollow(keyword) ==
    IF keyword = <<>>
    THEN 0
    ELSE IF byName(ToLower(keyword)) = 0
            \/ Directives[byName(ToLower(keyword))].Status # "supported"
         THEN 0
         ELSE byName(ToLower(keyword))

\* The position of the entry, 0 for nil.
supportedDirective(keyword) ==
    IF keyword = <<>>
    THEN 0
    ELSE IF byName(ToLower(keyword)) = 0
            \/ Directives[byName(ToLower(keyword))].Status # "supported"
         THEN 0
         ELSE followAlias(byName(ToLower(keyword)), {ToLower(keyword)})

firstDefault(d) ==
    IF d = 0 THEN <<>>
    ELSE IF Len(defaultValues(Directives[d])) = 0 THEN <<>>
         ELSE defaultValues(Directives[d])[1]

Default(keyword) == firstDefault(supportedDirective(keyword))

multiOf(d) == IF d = 0 THEN FALSE ELSE Directives[d].Multi

SupportsMultiple(key) == multiOf(supportedDirective(key))

\* The keyword with its first letter in upper case.
Title(s) ==
    IF s = <<>> THEN s
    ELSE [i \in 1..Len(s) |->
             IF i = 1 /\ \E k \in 1..Len(Lowers) : Lowers[k] = s[1]
             THEN Uppers[CHOOSE k \in 1..Len(Lowers) : Lowers[k] = s[1]]
             ELSE s[i]]

s_notfound == <<"n", "o", "t", "f", "o", "u", "n", "d">>

Keywords ==
    {Directives[i].Name : i \in 1..Len(Directives)}
        \cup {Title(Directives[i].Name) : i \in 1..Len(Directives)}
        \cup {s_notfound, Title(s_notfound), <<>>}

InitDefaults ==
    /\ pc = "start"
    /\ pass = "initial"
    /\ state = EmptyState
    /\ cfgIdx = 0
    /\ stack = <<>>
    /\ result = NilResult
    /\ canonDone = FALSE
    /\ ret = [result |-> NilResult, err |-> ""]
    /\ trace = <<>>
    /\ matchLog = <<>>
    /\ canonCalls = <<>>
    /\ passes = <<>>
    /\ configs = <<>>
    /\ ctx = Context(h_foo, "nil", "nil")
    /\ options = resolveOptions(FALSE, FALSE, NoCanonicalize)
    /\ answer = Pending
    /\ text = NoText
    /\ out = NoOutput
    /\ us = NoSettings
    /\ procs = NoCallers
    /\ io = NoIO
    /\ slices = NoSlices
    /\ \E fn \in {"Default", "SupportsMultiple"}, keyword \in Keywords :
          call = PatternCall(fn, <<>>, keyword, FALSE)

CallDefault ==
    /\ call.fn = "Default"
    /\ ~answer.done
    /\ answer' = Returned(Default(call.value))
    /\ UNCHANGED <<resolverVars, call, text, out, us, procs, io, slices>>

CallSupportsMultiple ==
    /\ call.fn = "SupportsMultiple"
    /\ ~answer.done
    /\ answer' = Returned(SupportsMultiple(call.value))
    /\ UNCHANGED <<resolverVars, call, text, out, us, procs, io, slices>>

NextDefaults == CallDefault \/ CallSupportsMultiple

SpecDefaults == InitDefaults /\ [][NextDefaults]_vars

(***************************************************************************)
(* C20.  A keyword that is an alias of a supported directive has that      *)
(* directive's default and multi-valuedness; a keyword that is unknown,    *)
(* unsupported, or deprecated with no supported target, has the default    *)
(* "" and is not multi-valued.                                             *)
(***************************************************************************)
\* The entry the spec holds for the keyword, 0 for none.
specEntry(keyword) == byName(ToLower(keyword))

\* The entry is an alias and its target is a supported entry: the target.
supportedTarget(d) ==
    IF d = 0 \/ Directives[d].AliasFor = <<>>
    THEN 0
    ELSE IF specEntry(Directives[d].AliasFor) = 0 THEN 0
         ELSE IF Directives[specEntry(Directives[d].AliasFor)].Status = "supported"
              THEN specEntry(Directives[d].AliasFor)
              ELSE 0

Returns(fn) == call.fn = fn /\ answer.done

C20_AliasTransitivity ==
    LET d == specEntry(call.value)
        c == supportedTarget(d)
    IN  /\ (c # 0 /\ Returns("Default")) =>
              /\ answer.value = Default(Directives[c].Name)
              /\ answer.value = firstDefault(c)
        /\ (c # 0 /\ Returns("SupportsMultiple")) =>
              /\ answer.value = SupportsMultiple(Directives[c].Name)
              /\ answer.value = Directives[c].Multi
        /\ (d = 0 \/ (c = 0 /\ Directives[d].Status \in {"unsupported", "deprecated"})) =>
              /\ Returns("Default") => answer.value = <<>>
              /\ Returns("SupportsMultiple") => answer.value = FALSE

\* Default("Userknownhostsfile2") returned the first default of
\* userknownhostsfile, which the alias entry itself does not carry.
C20_Witness ==
    /\ call.value = Title(s_userknownhostsfile2)
    /\ Returns("Default")
    /\ answer.value = s_kh1
    /\ Directives[specEntry(call.value)].Default = NoDefault

(***************************************************************************)
(* Result.Get and Result.GetAll, and a caller writing into the slices      *)
(* GetAll handed out.  A slice either holds its own backing array or       *)
(* shares the array the Result keeps under a key.                          *)
(***************************************************************************)
\* The most slices a caller holds.
MaxSlices == 2

NilSlice == [shares |-> FALSE, key |-> <<>>, data |-> <<>>]

\* r.values[strings.ToLower(key)]
valuesOf(r, key) ==
    IF ToLower(key) \in DOMAIN r.values THEN r.values[ToLower(key)] ELSE <<>>

\* GetAll returning the slice of the map itself.
GetAllShared(r, key) ==
    IF ~r.ok
    THEN NilSlice
    ELSE IF Len(valuesOf(r, key)) = 0
         THEN NilSlice
         ELSE [shares |-> TRUE, key |-> ToLower(key), data |-> <<>>]

\* GetAll: out := make([]string, len(vals)); copy(out, vals)
GetAll(r, key) ==
    IF ~r.ok
    THEN NilSlice
    ELSE IF Len(valuesOf(r, key)) = 0
         THEN NilSlice
         ELSE [shares |-> FALSE, key |-> ToLower(key), data |-> valuesOf(r, key)]

\* The elements of a slice.
elements(r, s) == IF s.shares THEN r.values[s.key] ELSE s.data

Get(r, key) ==
    IF ~r.ok
    THEN <<>>
    ELSE IF Len(elements(r, GetAll(r, key))) = 0
         THEN <<>>
         ELSE elements(r, GetAll(r, key))[1]

k_uSER == <<"u", "S", "E", "R">>
v_root == <<"r", "o", "o", "t">>
v_id1 == <<"i", "d", "1">>
v_id2 == <<"i", "d", "2">>
v_x == <<"x">>

AccessKeys == {s_user, k_uSER, s_identityfile, Title(s_identityfile), s_port, <<>>}

AccessResults ==
    {NilResult,
     [ok |-> TRUE, values |-> EmptyMap],
     [ok |-> TRUE, values |-> Put(EmptyMap, s_user, <<v_root>>)],
     [ok |-> TRUE, values |-> Put(Put(EmptyMap, s_user, <<v_root>>),
                                  s_identityfile, <<v_id1, v_id2>>)]}

InitAccess ==
    /\ pc = "done"
    /\ pass = "initial"
    /\ state = EmptyState
    /\ cfgIdx = 0
    /\ stack = <<>>
    /\ canonDone = FALSE
    /\ trace = <<>>
    /\ matchLog = <<>>
    /\ canonCalls = <<>>
    /\ passes = <<>>
    /\ configs = <<>>
    /\ ctx = Context(h_foo, "nil", "nil")
    /\ options = resolveOptions(FALSE, FALSE, NoCanonicalize)
    /\ call = NoCall
    /\ answer = Pending
    /\ text = NoText
    /\ out = NoOutput
    /\ us = NoSettings
    /\ procs = NoCallers
    /\ io = NoIO
    /\ slices = NoSlices
    /\ \E r \in AccessResults :
          /\ result = r
          /\ ret = [result |-> r, err |-> ""]

accessVars == <<configs, ctx, options, pc, pass, state, cfgIdx, stack, canonDone, ret, trace,
                matchLog, canonCalls, passes, text, out, us, procs, io>>

\* res.Get(key)
CallGet ==
    /\ \E key \in AccessKeys :
          /\ call' = PatternCall("Get", <<>>, key, FALSE)
          /\ answer' = Returned(Get(result, key))
    /\ UNCHANGED <<accessVars, result, slices>>

\* vals := res.GetAll(key)
CallGetAll ==
    /\ Len(slices) < MaxSlices
    /\ \E key \in AccessKeys :
          /\ call' = PatternCall("GetAll", <<>>, key, FALSE)
          /\ answer' = Returned(elements(result, GetAll(result, key)))
          /\ slices' = Append(slices, GetAll(result, key))
    /\ UNCHANGED <<accessVars, result>>

\* vals[j] = v, on a slice GetAll returned.
WriteSlice ==
    /\ \E i \in DOMAIN slices :
       \E j \in 1..Len(elements(result, slices[i])) :
       \E v \in {v_x} :
          IF slices[i].shares
          THEN /\ result' = [result EXCEPT !.values[slices[i].key][j] = v]
               /\ UNCHANGED slices
          ELSE /\ slices' = [slices EXCEPT ![i].data[j] = v]
               /\ UNCHANGED result
    /\ UNCHANGED <<accessVars, call, answer>>

NextAccess == CallGet \/ CallGetAll \/ WriteSlice

SpecAccess == InitAccess /\ [][NextAccess]_vars

(***************************************************************************)
(* C21.  Get(key) is the first element of GetAll(key), "" when GetAll(key) *)
(* is empty; the case of key makes no difference; and whatever the caller  *)
(* has written into the slices GetAll returned, Get and GetAll return what *)
(* they returned on the Result as Resolve left it.                         *)
(***************************************************************************)
C21_GetFirstOfGetAllCopy ==
    \A key \in AccessKeys :
        /\ Get(result, key) =
              IF Len(elements(result, GetAll(result, key))) = 0
              THEN <<>>
              ELSE Head(elements(result, GetAll(result, key)))
        /\ \A other \in AccessKeys :
              ToLower(other) = ToLower(key) =>
                  /\ Get(result, other) = Get(result, key)
                  /\ elements(result, GetAll(result, other))
                        = elements(result, GetAll(result, key))
        /\ Get(result, key) = Get(ret.result, key)
        /\ elements(result, GetAll(result, key))
              = elements(ret.result, GetAll(ret.result, key))

\* The caller overwrote both elements of a slice GetAll("Identityfile")
\* returned, and Get("uSER") then returned "root".
C21_Witness ==
    /\ \E i \in DOMAIN slices : slices[i].key = s_identityfile /\ slices[i].data = <<v_x, v_x>>
    /\ call = PatternCall("Get", <<>>, k_uSER, FALSE)
    /\ answer = Returned(v_root)
    /\ Get(result, s_identityfile) = v_id1

(***************************************************************************)
(* Resolve over documents that set HostName and match on the host, with    *)
(* and without a Canonicalize callback, OriginalHost and LocalUser.        *)
(***************************************************************************)
hn_pct == <<"%", "h", ".", "x">>
hn_pctpct == <<"%", "%", "%", "h">>
h_orig == <<"o", "r", "i", "g">>
u_lu == <<"l", "u">>
v_late == <<"l", "a", "t", "e">>
m_host_foo_x == <<"h", "o", "s", "t", " ", "f", "o", "o", ".", "x">>
m_host_bar == <<"h", "o", "s", "t", " ", "b", "a", "r">>
m_host_pctfoo == <<"h", "o", "s", "t", " ", "%", "f", "o", "o">>
m_host_foo == <<"h", "o", "s", "t", " ", "f", "o", "o">>
m_originalhost_foo == <<"o", "r", "i", "g", "i", "n", "a", "l", "h", "o", "s", "t", " ",
                        "f", "o", "o">>
m_originalhost_orig == <<"o", "r", "i", "g", "i", "n", "a", "l", "h", "o", "s", "t", " ",
                         "o", "r", "i", "g">>
m_exec_n_h == <<"e", "x", "e", "c", " ", "\"", "c", " ", "%", "n", " ", "%", "h", "\"">>

IncHostName == Config(<<ImplicitHost(<<KV(k_HostName, h_bar)>>)>>)

HostNameBlocks == {
    Host(<<h_foo>>, <<KV(k_HostName, hn_pct)>>),
    Host(<<p_star>>, <<Include(<<path_inc1>>, <<IncHostName>>), Empty, KV(k_User, v_a)>>),
    Host(<<h_bar>>, <<KV(k_User, v_i), KV(k_HostName, v_late)>>),
    Match(m_host_foo_x, <<KV(k_User, v_b)>>),
    Match(m_host_bar, <<KV(k_Tag, v_t)>>),
    Match(m_host_pctfoo, <<KV(k_Tag, v_k)>>),
    Match(m_host_foo, <<KV(k_HostName, hn_pctpct), KV(k_Port, v_2222)>>),
    Match(m_originalhost_foo, <<KV(k_Port, v_2222)>>),
    Match(m_originalhost_orig, <<KV(k_IdentityFile, v_f1)>>),
    Match(m_exec_n_h, <<KV(k_IdentityFile, v_f2)>>)}

InitHostNames ==
    /\ InitRest
    /\ \E blocks \in SeqsUpTo(HostNameBlocks, MaxBlocks) : configs = <<Document(blocks)>>
    /\ \E h \in {h_foo, h_bar}, o \in {<<>>, h_orig}, u \in {<<>>, u_lu} :
          ctx = [Context(h, "true", "nil") EXCEPT !.OriginalHost = o, !.LocalUser = u]
    /\ \E f \in BOOLEAN, c \in {NoCanonicalize, CanonicalizeTo(h_bar)} :
          options = resolveOptions(FALSE, f, c)

SpecHostNames == InitHostNames /\ [][Next]_vars

(***************************************************************************)
(* C22.  A Resolve that succeeded returns a hostname: the value of the     *)
(* first active HostName of the last pass, otherwise the HostArg of that   *)
(* pass; and as user the value of the first active User, otherwise the     *)
(* normalised LocalUser when that is not empty.                            *)
(***************************************************************************)
Succeeded == pc = "done" /\ ret.err = ""

C22_HostnameAndUserFallback ==
    Succeeded =>
        /\ ret.result.ok
        /\ Has(ret.result.values, s_hostname)
        /\ ret.result.values[s_hostname] =
              IF ConfiguredValues(s_hostname) # <<>>
              THEN <<ConfiguredValues(s_hostname)[1]>>
              ELSE <<ctx.HostArg>>
        /\ IF ConfiguredValues(s_user) # <<>>
           THEN /\ Has(ret.result.values, s_user)
                /\ ret.result.values[s_user] = <<ConfiguredValues(s_user)[1]>>
           ELSE ctx.LocalUser # <<>> =>
                   /\ Has(ret.result.values, s_user)
                   /\ ret.result.values[s_user] = <<ctx.LocalUser>>

\* The canonical pass was the last one; no HostName and no User was active
\* in it, and the result holds the canonical name and the caller's LocalUser.
C22_Witness ==
    /\ Succeeded
    /\ passes = <<"initial", "canonical">>
    /\ Len(trace) > 0
    /\ ConfiguredValues(s_hostname) = <<>>
    /\ ConfiguredValues(s_user) = <<>>
    /\ canonCalls = <<h_foo>>
    /\ ret.result.values[s_hostname] = <<h_bar>>
    /\ ret.result.values[s_user] = <<u_lu>>

(***************************************************************************)
(* Resolve over documents one of whose passes fails: the Exec callback     *)
(* fails on a Match line that only the canonical or the final pass         *)
(* evaluates, the Canonicalize callback fails, a directive is unknown, or  *)
(* HostArg is empty.                                                       *)
(***************************************************************************)
m_exec_i == <<"e", "x", "e", "c", " ", "i">>
m_canonical_exec == <<"c", "a", "n", "o", "n", "i", "c", "a", "l", " ", "e", "x", "e", "c", " ", "c">>
m_final_exec == <<"f", "i", "n", "a", "l", " ", "e", "x", "e", "c", " ", "f">>

FailureBlocks == {
    Host(<<p_star>>, <<KV(k_User, v_a), Empty>>),
    Host(<<h_foo>>, <<KV(k_BadDirective, v_b)>>),
    Host(<<p_star>>, <<Include(<<path_inc1>>, <<IncBad>>)>>),
    Match(m_exec_i, <<KV(k_Port, v_2222)>>),
    Match(m_canonical_exec, <<KV(k_User, v_canon)>>),
    Match(m_final_exec, <<KV(k_User, v_final)>>)}

InitFailures ==
    /\ InitRest
    /\ \E blocks \in SeqsUpTo(FailureBlocks, MaxBlocks) : configs = <<Document(blocks)>>
    /\ \E h \in {h_foo, <<>>}, e \in {"true", "error"} : ctx = Context(h, e, "nil")
    /\ \E s \in BOOLEAN, f \in BOOLEAN,
          c \in {NoCanonicalize, CanonicalizeTo(h_bar),
                 CanonicalizeFn(FALSE, h_bar, TRUE, TRUE)} :
          options = resolveOptions(s, f, c)

SpecFailures == InitFailures /\ [][Next]_vars

(***************************************************************************)
(* C23.  A Resolve that returns an error returns no result, whichever step *)
(* failed: the check of HostArg, the initial pass, the Canonicalize        *)
(* callback, the canonical pass or the final pass; the result of an        *)
(* earlier pass that succeeded is not returned.                            *)
(***************************************************************************)
C23_ErrorMeansNoResult ==
    /\ (pc = "done" /\ ret.err # "") => ret.result = NilResult
    /\ (pc = "done" /\ ret.err = "") => ret.result.ok
    /\ (pc # "done") => ret = [result |-> NilResult, err |-> ""]

\* The initial and the canonical pass succeeded, the final pass failed on
\* the Exec callback, and Resolve returned the error alone.
C23_Witness ==
    /\ pc = "done"
    /\ passes = <<"initial", "canonical", "final">>
    /\ result.ok
    /\ Has(result.values, s_hostname)
    /\ ret.err # ""
    /\ ret.result = NilResult

\* The Canonicalize callback failed after the initial pass had succeeded.
C23_WitnessCallback ==
    /\ pc = "done"
    /\ passes = <<"initial">>
    /\ canonCalls = <<h_foo>>
    /\ result.ok
    /\ ret.err # ""
    /\ ret.result = NilResult

(***************************************************************************)
(* Resolve over documents whose Include nodes lie in blocks that are       *)
(* active or not, the included documents holding Match lines with          *)
(* callbacks, further Include nodes and directives strict mode rejects.    *)
(***************************************************************************)
path_inc3 == <<"/", "i", "3">>
m_exec_c == <<"e", "x", "e", "c", " ", "c">>
m_localnetwork_n == <<"l", "o", "c", "a", "l", "n", "e", "t", "w", "o", "r", "k", " ", "n">>

IncCallbacks == Config(<<ImplicitHost(<<KV(k_User, v_i)>>),
                         Match(m_exec_c, <<KV(k_Port, v_2222)>>),
                         Match(m_localnetwork_n, <<KV(k_IdentityFile, v_f2)>>)>>)

IncNested == Config(<<ImplicitHost(<<KV(k_IdentityFile, v_f3),
                                     Include(<<path_inc2>>, <<IncCallbacks>>)>>),
                      Host(<<p_star>>, <<KV(k_Tag, v_t)>>)>>)

IncInvalid == Config(<<ImplicitHost(<<KV(k_User, v_i)>>),
                       Host(<<p_star>>, <<KV(k_BatchMode, v_maybe)>>)>>)

IncludeBlocks == {
    Host(<<h_bar>>, <<Include(<<path_inc1>>, <<IncCallbacks>>), KV(k_User, v_b)>>),
    Host(<<p_star>>, <<Include(<<path_inc1>>, <<IncCallbacks>>), Empty>>),
    Host(<<h_bar>>, <<Include(<<path_inc3>>, <<IncNested>>)>>),
    Host(<<h_foo>>, <<Include(<<path_inc3>>, <<IncNested>>)>>),
    Match(m_host_bar, <<Include(<<path_inc1, path_inc3>>, <<IncInvalid, IncNested>>)>>),
    Host(<<p_star>>, <<KV(k_User, v_a)>>)}

InitIncludes ==
    /\ InitRest
    /\ \E blocks \in SeqsUpTo(IncludeBlocks, MaxBlocks) : configs = <<Document(blocks)>>
    /\ \E h \in {h_foo, h_bar} : ctx = Context(h, "true", "true")
    /\ \E s \in BOOLEAN, f \in BOOLEAN, c \in {NoCanonicalize, CanonicalizeTo(h_bar)} :
          options = resolveOptions(s, f, c)

SpecIncludes == InitIncludes /\ [][Next]_vars

(***************************************************************************)
(* C24.  A document included from an inactive block, or from a document    *)
(* that is itself walked with neverMatch, is walked with neverMatch; while *)
(* such a document is walked no directive is stored (its blocks, the       *)
(* implicit one included, are inactive), and no Match line is evaluated,   *)
(* so no Exec or LocalNetwork callback is invoked; in strict mode a        *)
(* directive that would be rejected in an active block ends Resolve with   *)
(* the error.                                                              *)
(***************************************************************************)
InNeverMatch == pc = "walk" /\ stack # <<>> /\ Top.neverMatch

C24_InactiveIncludeInert ==
    [][/\ stack # <<>> => ~stack[1].neverMatch
       /\ \A j \in 2..Len(stack) :
             stack[j].neverMatch <=> (stack[j - 1].neverMatch \/ ~stack[j - 1].active)
       /\ InNeverMatch =>
             /\ state' = state
             /\ matchLog' = matchLog
             /\ trace' # trace => ~trace'[Len(trace')].active
             /\ (/\ AtNode
                 /\ CurNode.kind = "KV"
                 /\ options.strict
                 /\ applyDirective(CurNode.Key, CurNode.Value, TRUE, options, state).err # "")
                   => (pc' = "done" /\ ret'.err # "" /\ ret'.result = NilResult)
      ]_vars

\* A strict Resolve failed on the BatchMode of a document included from a
\* Match block that was not active.
C24_Witness ==
    /\ pc = "done"
    /\ options.strict
    /\ ret.err # ""
    /\ stack # <<>>
    /\ Len(stack) = 2
    /\ stack[1].blocks[stack[1].bi].kind = "Match"
    /\ ~stack[1].active
    /\ Top.neverMatch
    /\ CurNode.Key = k_BatchMode

\* The nested document with the Match lines was walked with neverMatch, two
\* Include nodes below a Host block that did not match, and nothing was
\* evaluated.
C24_WitnessNested ==
    /\ pc = "walk"
    /\ Len(stack) = 3
    /\ ~stack[1].active
    /\ stack[2].neverMatch
    /\ Top.neverMatch
    /\ Top.bi = 3
    /\ AtNode
    /\ matchLog = <<>>
    /\ state = EmptyState

(***************************************************************************)
(* C25.  A Match host line is decided on the effective host at the moment  *)
(* the line is reached: the first HostName an active directive of the pass *)
(* has set so far, with %h standing for HostArg and %% for %, or HostArg   *)
(* when none has been set; what the walk sets afterwards plays no part.    *)
(* A Host block is decided on HostArg itself.                              *)
(***************************************************************************)
\* What the HostName values of the documents stand for when HostArg is h.
HostNameFor(value, h) ==
    CASE value = hn_pct -> h \o <<".", "x">>
      [] value = hn_pctpct -> <<"%">> \o h
      [] OTHER -> value

\* The effective host, from the directives the pass has applied so far.
HostSoFar ==
    IF ConfiguredValues(s_hostname) # <<>>
    THEN HostNameFor(ConfiguredValues(s_hostname)[1], ctx.HostArg)
    ELSE ctx.HostArg

\* The name of a "host <name>" line, <<>> for any other line.
HostLineName(raw) ==
    IF Len(raw) > 5 /\ SubSeq(raw, 1, 5) = <<"h", "o", "s", "t", " ">>
    THEN SubSeq(raw, 6, Len(raw))
    ELSE <<>>

AtMatchHost == AtMatchHeader /\ HostLineName(CurBlock.Criteria) # <<>>

\* Some pattern of the Host block is the name or "*".
NamesHost(block, h) ==
    \E i \in 1..Len(block.Patterns) :
        block.Patterns[i].str = <<"*">> \/ block.Patterns[i].str = h

C25_MatchHostAtTheLine ==
    [][/\ AtMatchHost =>
             /\ Len(matchLog') = Len(matchLog) + 1
             /\ matchLog'[Len(matchLog')].active
                   = (HostLineName(CurBlock.Criteria) = HostSoFar)
             /\ stack'[Len(stack')].active = (HostLineName(CurBlock.Criteria) = HostSoFar)
       /\ (AtHeader /\ CurBlock.kind = "Host" /\ ~Top.neverMatch /\ Len(CurBlock.Nodes) > 0) =>
             stack'[Len(stack')].active = NamesHost(CurBlock, ctx.HostArg)
      ]_vars

\* Earlier in the pass "HostName %h.x" was applied for HostArg foo; the line
\* "Match host foo.x" was then found to hold, and "Match host foo" would not.
C25_Witness ==
    /\ pc = "walk"
    /\ ctx.HostArg = h_foo
    /\ ConfiguredValues(s_hostname) = <<hn_pct>>
    /\ matchLog # <<>>
    /\ matchLog[Len(matchLog)].active
    /\ stack # <<>>
    /\ Top.ni >= 1
    /\ CurBlock.Criteria = m_host_foo_x

\* "Match host bar" was found not to hold for HostArg foo, and the HostName
\* bar that a later block set did not change that.
C25_WitnessLater ==
    /\ pc = "passEnd"
    /\ pass = "initial"
    /\ ctx.HostArg = h_foo
    /\ Len(matchLog) = 1
    /\ ~matchLog[1].active
    /\ configs[1].Blocks[2].Criteria = m_host_bar
    /\ ConfiguredValues(s_hostname) = <<h_bar>>
    /\ ~Has(result.values, s_tag)

\* "HostName %%%h" was applied for HostArg foo, and "Match host %foo" held.
C25_WitnessPercent ==
    /\ ctx.HostArg = h_foo
    /\ ConfiguredValues(s_hostname) = <<hn_pctpct>>
    /\ Len(matchLog) = 2
    /\ matchLog[2].active
    /\ configs[1].Blocks[3].Criteria = m_host_pctfoo

(***************************************************************************)
(* Resolve over documents whose Match exec lines hold tokens, after        *)
(* HostName, User and Port lines whose values reach the command.           *)
(***************************************************************************)
hn_pctpctn == <<"%", "%", "n">>
x_scan == <<"e", "x", "e", "c", " ", "\"", "c", " ", "%", "h", " ", "%", "%", "h", " ", "%", "\"">>
x_unknown == <<"e", "x", "e", "c", " ", "%", "X", "%", "n", "%", "%", "%", "r">>
x_plain == <<"e", "x", "e", "c", " ", "l", "s">>
x_port == <<"e", "x", "e", "c", " ", "%", "p", "%", "%", "%", "%", "u", "%">>

ExecBlocks == {
    Host(<<p_star>>, <<KV(k_HostName, hn_pctpctn), Empty>>),
    Host(<<h_foo>>, <<KV(k_HostName, hn_pct), KV(k_User, v_a)>>),
    Host(<<p_star>>, <<Include(<<path_inc1>>, <<Inc1>>)>>),
    Match(x_scan, <<KV(k_User, v_b)>>),
    Match(x_unknown, <<KV(k_Port, v_2222)>>),
    Match(x_plain, <<KV(k_Tag, v_t)>>),
    Match(x_port, <<KV(k_IdentityFile, v_f1)>>)}

InitExec ==
    /\ InitRest
    /\ \E blocks \in SeqsUpTo(ExecBlocks, MaxBlocks) : configs = <<Document(blocks)>>
    /\ \E h \in {h_foo, h_bar}, o \in {<<>>, h_orig}, e \in {"true", "false"} :
          ctx = [Context(h, e, "nil") EXCEPT !.OriginalHost = o]
    /\ \E f \in BOOLEAN, c \in {NoCanonicalize, CanonicalizeTo(h_bar)} :
          options = resolveOptions(FALSE, f, c)

SpecExec == InitExec /\ [][Next]_vars

(***************************************************************************)
(* C26.  The command the Exec callback receives is the value of the Match  *)
(* exec line with each token of the table replaced once, from left to      *)
(* right: %% by %, %h by the effective host; %X, which no table entry      *)
(* names, and a % at the end stay as they are, and what a replacement      *)
(* wrote is not expanded again.                                            *)
(***************************************************************************)
\* The effective host from the HostName the pass applied so far; "%%n"
\* stands for the text %n.
ExecHost ==
    IF ConfiguredValues(s_hostname) = <<>>
    THEN ctx.HostArg
    ELSE CASE ConfiguredValues(s_hostname)[1] = hn_pctpctn -> <<"%", "n">>
           [] ConfiguredValues(s_hostname)[1] = hn_pct -> ctx.HostArg \o <<".", "x">>
           [] OTHER -> ConfiguredValues(s_hostname)[1]

ExecUser == IF ConfiguredValues(s_user) # <<>> THEN ConfiguredValues(s_user)[1] ELSE ctx.LocalUser

ExecPort == IF ConfiguredValues(s_port) # <<>> THEN ConfiguredValues(s_port)[1] ELSE s_22

\* The command each Match exec line of the documents stands for.
ExpectedCommand(raw) ==
    CASE raw = x_scan -> <<"c", " ">> \o ExecHost \o <<" ", "%", "h", " ", "%">>
      [] raw = x_unknown -> <<"%", "X">> \o ctx.OriginalHost \o <<"%">> \o ExecUser
      [] raw = x_plain -> <<"l", "s">>
      [] raw = x_port -> ExecPort \o <<"%", "%", "u", "%">>

AtMatchExec == AtMatchHeader /\ CurBlock.Criteria \in {x_scan, x_unknown, x_plain, x_port}

C26_ExecReceivesExpansion ==
    [][AtMatchExec =>
          /\ Len(matchLog') = Len(matchLog) + 1
          /\ Len(matchLog'[Len(matchLog')].evals) = 1
          /\ matchLog'[Len(matchLog')].evals[1].exec = <<ExpectedCommand(CurBlock.Criteria)>>
      ]_vars

\* HostName is "%%n", so the effective host is the text %n: the callback
\* received "c %n %h %" for the line exec "c %h %%h %", with OriginalHost set.
C26_Witness ==
    /\ ctx.OriginalHost = h_orig
    /\ ConfiguredValues(s_hostname) = <<hn_pctpctn>>
    /\ matchLog # <<>>
    /\ matchLog[Len(matchLog)].evals
          = <<[outcome |-> "true",
               exec |-> <<<<"c", " ", "%", "n", " ", "%", "h", " ", "%">>>>,
               net |-> <<>>]>>

(***************************************************************************)
(* C27.  Outside strict mode a directive whose status is deprecated and    *)
(* whose aliasFor is empty is ignored: in an active block it stores        *)
(* nothing, and its key is not in the state.                               *)
(***************************************************************************)
\* The call names a deprecated directive that is no alias.
DeprecatedNoAlias(e) ==
    /\ entryOf(e.key) # 0
    /\ Directives[entryOf(e.key)].Status = "deprecated"
    /\ Directives[entryOf(e.key)].AliasFor = <<>>

C27_DeprecatedIgnored ==
    ~options.strict =>
        \A j \in 1..Len(trace) :
            (trace[j].active /\ DeprecatedNoAlias(trace[j])) =>
                /\ ~trace[j].stored
                /\ ~Has(state.values, canonicalKey(Directives[entryOf(trace[j].key)]))

(***************************************************************************)
(* The spec generator (internal/specgen).  The OpenSSH sources are held    *)
(* as what the generator's scanners read out of them: the keywords[]       *)
(* table of readconf.c, the parsing case of each opcode, the multistate    *)
(* tables, and the #define lines of the four headers, each with its value  *)
(* split into string literals and identifiers.                             *)
(***************************************************************************)
MaxKeywords == 3

MaxRuns == 2

HeaderFiles == {"pathnames.h", "myproposal.h", "version.h", "ssh.h"}

\* The orders in which the range over the map of headers can visit them.
HeaderOrders ==
    {o \in [1..4 -> HeaderFiles] : \A i, j \in 1..4 : i # j => o[i] # o[j]}

\* A #define line: the macro's name and the tokens of its value.
Define(name, raw) == [name |-> name, raw |-> raw]

Str(v) == [value |-> v, isString |-> TRUE]

Ident(name) == [value |-> name, isString |-> FALSE]

\* macros[name] = macroDef{Raw: ...}: a later definition replaces an earlier one.
setMacro(macros, name, raw) ==
    [n \in DOMAIN macros \cup {name} |-> IF n = name THEN raw ELSE macros[n]]

RECURSIVE scanDefines(_, _)
scanDefines(macros, lines) ==
    IF lines = <<>>
    THEN macros
    ELSE scanDefines(setMacro(macros, Head(lines).name, Head(lines).raw), Tail(lines))

RECURSIVE parseMacrosFrom(_, _, _)
parseMacrosFrom(files, order, macros) ==
    IF order = <<>>
    THEN macros
    ELSE parseMacrosFrom(files, Tail(order), scanDefines(macros, files[Head(order)]))

\* parseMacros, the headers visited in the given order.
parseMacros(files, order) == parseMacrosFrom(files, order, EmptyMap)

RECURSIVE resolveMacroStringWithStack(_, _, _)
RECURSIVE resolveMacroValue(_, _, _)
resolveMacroStringWithStack(macros, name, visiting) ==
    IF name \in visiting \/ name \notin DOMAIN macros
    THEN [val |-> <<>>, ok |-> FALSE]
    ELSE [val |-> resolveMacroValue(macros, macros[name], visiting \cup {name}),
          ok |-> resolveMacroValue(macros, macros[name], visiting \cup {name}) # <<>>]

\* Unknown identifiers, and identifiers being resolved, contribute nothing.
resolveMacroValue(macros, tokens, visiting) ==
    IF tokens = <<>>
    THEN <<>>
    ELSE (IF Head(tokens).isString
          THEN Head(tokens).value
          ELSE resolveMacroStringWithStack(macros, Head(tokens).value, visiting).val)
         \o resolveMacroValue(macros, Tail(tokens), visiting)

resolveMacroString(macros, name) == resolveMacroStringWithStack(macros, name, {}).val

opcodeStatus(opcode) ==
    IF opcode = "oDeprecated" THEN "deprecated"
    ELSE IF opcode \in {"oUnsupported", "oIgnore"} THEN "unsupported"
    ELSE "supported"

\* parseKeywords: the entries of keywords[], names in lower case; no entry is an error.
parseKeywords(table) ==
    [entries |-> [i \in DOMAIN table |->
                     [Name |-> ToLower(table[i].name),
                      Opcode |-> table[i].opcode,
                      Status |-> opcodeStatus(table[i].opcode)]],
     err |-> IF table = <<>> THEN "no keywords found" ELSE ""]

\* infos[opcode]: an opcode with no parsing case has the zero opcodeInfo.
opcodeInfoOf(infos, opcode) ==
    IF opcode \in DOMAIN infos
    THEN infos[opcode]
    ELSE [ValueType |-> "", Multistate |-> "", Multi |-> FALSE]

firstIndex(S) == CHOOSE i \in S : \A j \in S : i <= j

\* The first supported keyword of the opcode, else its first keyword.
canonicalByOpcode(keywords, opcode) ==
    IF \E i \in DOMAIN keywords :
          keywords[i].Opcode = opcode /\ keywords[i].Status = "supported"
    THEN keywords[firstIndex({i \in DOMAIN keywords :
                                 /\ keywords[i].Opcode = opcode
                                 /\ keywords[i].Status = "supported"})].Name
    ELSE keywords[firstIndex({i \in DOMAIN keywords : keywords[i].Opcode = opcode})].Name

g_ciphers == <<"c", "i", "p", "h", "e", "r", "s">>

multiKeywords == {s_identityfile, s_certificatefile}

\* The macro holding the default of the keyword, "" for none.
algoDefaults(name) == IF name = g_ciphers THEN "KEX_CLIENT_ENCRYPT" ELSE ""

typeOverrides(name, type) == IF name = s_port THEN "uint" ELSE type

\* The default of a canonical entry: readconf.c assigns none in these sources,
\* so it is the algorithm macro's value, and for port the default port.
generatedDefault(name, macros) ==
    IF name = s_port /\ resolveMacroString(macros, "SSH_DEFAULT_PORT") # <<>>
    THEN StringDefault(resolveMacroString(macros, "SSH_DEFAULT_PORT"))
    ELSE IF algoDefaults(name) # "" /\ resolveMacroString(macros, algoDefaults(name)) # <<>>
         THEN StringDefault(resolveMacroString(macros, algoDefaults(name)))
         ELSE NoDefault

\* The DirectiveSpec built for the i-th keyword.
directiveSpec(keywords, i, readconf, macros) ==
    [Name |-> keywords[i].Name,
     Canonical |-> canonicalByOpcode(keywords, keywords[i].Opcode),
     Status |-> keywords[i].Status,
     Type |-> typeOverrides(keywords[i].Name,
                            opcodeInfoOf(readconf.infos, keywords[i].Opcode).ValueType),
     Multi |-> \/ opcodeInfoOf(readconf.infos, keywords[i].Opcode).Multi
               \/ \E j \in 1..i : /\ keywords[j].Opcode = keywords[i].Opcode
                                  /\ keywords[j].Name \in multiKeywords,
     Default |-> IF keywords[i].Name = canonicalByOpcode(keywords, keywords[i].Opcode)
                 THEN generatedDefault(keywords[i].Name, macros)
                 ELSE NoDefault,
     AliasFor |-> IF keywords[i].Name # canonicalByOpcode(keywords, keywords[i].Opcode)
                  THEN canonicalByOpcode(keywords, keywords[i].Opcode)
                  ELSE <<>>,
     Enum |-> IF /\ opcodeInfoOf(readconf.infos, keywords[i].Opcode).ValueType = "enum"
                 /\ opcodeInfoOf(readconf.infos, keywords[i].Opcode).Multistate
                       \in DOMAIN readconf.multistates
              THEN readconf.multistates[
                       opcodeInfoOf(readconf.infos, keywords[i].Opcode).Multistate]
              ELSE <<>>]

\* The order of bytes among the characters of keyword names.
byteOrder == <<"0", "1", "2", "3", "4", "5", "6", "7", "8", "9">> \o Uppers \o Lowers

byteRank(c) == CHOOSE k \in 1..Len(byteOrder) : byteOrder[k] = c

RECURSIVE stringLess(_, _)
stringLess(a, b) ==
    IF b = <<>> THEN FALSE
    ELSE IF a = <<>> THEN TRUE
    ELSE IF Head(a) = Head(b) THEN stringLess(Tail(a), Tail(b))
    ELSE byteRank(Head(a)) < byteRank(Head(b))

\* sort.Slice on a short slice: each entry moves left past the entries whose
\* name is greater.
RECURSIVE insertByName(_, _)
insertByName(sorted, d) ==
    IF sorted # <<>> /\ stringLess(d.Name, sorted[Len(sorted)].Name)
    THEN Append(insertByName(SubSeq(sorted, 1, Len(sorted) - 1), d), sorted[Len(sorted)])
    ELSE Append(sorted, d)

RECURSIVE sortByName(_)
sortByName(ds) ==
    IF ds = <<>>
    THEN <<>>
    ELSE insertByName(sortByName(SubSeq(ds, 1, Len(ds) - 1)), ds[Len(ds)])

NilSpec == [OpenSSHVersion |-> <<>>, Directives |-> <<>>]

\* Generate, the headers visited in the given order.
GenerateFrom(readconf, keywords, macros) ==
    IF keywords.err # ""
    THEN [spec |-> NilSpec, err |-> keywords.err]
    ELSE [spec |-> [OpenSSHVersion |-> resolveMacroString(macros, "SSH_RELEASE"),
                    Directives |->
                        sortByName([i \in DOMAIN keywords.entries |->
                            directiveSpec(keywords.entries, i, readconf, macros)])],
          err |-> ""]

Generate(sources, order) ==
    GenerateFrom(sources.readconf, parseKeywords(sources.readconf.keywords),
                 parseMacros(sources.headers, order))

b_true == <<"t", "r", "u", "e">>

b_false == <<"f", "a", "l", "s", "e">>

\* The members json.Marshal writes for a DirectiveSpec, in order, each with
\* the text of its value: default, aliasFor and enum are left out when empty.
marshalDirective(d) ==
    << <<"name", d.Name>>,
       <<"canonical", d.Canonical>>,
       <<"status", d.Status>>,
       <<"type", d.Type>>,
       <<"multi", IF d.Multi THEN b_true ELSE b_false>> >>
    \o (IF d.Default.kind = "nil" THEN <<>> ELSE << <<"default", d.Default.str>> >>)
    \o (IF d.AliasFor = <<>> THEN <<>> ELSE << <<"aliasFor", d.AliasFor>> >>)
    \o (IF d.Enum = <<>> THEN <<>> ELSE << <<"enum", JoinWith(d.Enum, ",")>> >>)

marshalSpec(spec) ==
    [opensshVersion |-> spec.OpenSSHVersion,
     directives |-> [i \in DOMAIN spec.Directives |-> marshalDirective(spec.Directives[i])]]

NilBytes == [opensshVersion |-> <<>>, directives |-> <<>>]

\* GenerateBytes: the encoding of what Generate returned, nil with its error.
GenerateBytes(sources, order) ==
    IF Generate(sources, order).err # ""
    THEN [bytes |-> NilBytes, err |-> Generate(sources, order).err]
    ELSE [bytes |-> marshalSpec(Generate(sources, order).spec), err |-> ""]

\* The sources drawn: keywords[] tables over these entries, ...
Keyword(name, opcode) == [name |-> name, opcode |-> opcode]

KeywordPool ==
    {Keyword(s_port, "oPort"),
     Keyword(s_identityfile, "oIdentityFile"),
     Keyword(s_identityfile2, "oIdentityFile"),
     Keyword(g_ciphers, "oCiphers"),
     Keyword(s_cipher, "oDeprecated"),
     Keyword(s_fallbacktorsh, "oDeprecated"),
     Keyword(s_compression, "oCompression"),
     Keyword(s_afstokenpassing, "oUnsupported")}

OpcodeInfo(type, multistate, multi) ==
    [ValueType |-> type, Multistate |-> multistate, Multi |-> multi]

\* ... the parsing cases of readconf.c, ...
OpcodeInfos ==
    [o \in {"oPort", "oIdentityFile", "oCiphers", "oDeprecated", "oUnsupported",
            "oCompression"} |->
        CASE o = "oPort" -> OpcodeInfo("uint", "", FALSE)
          [] o = "oIdentityFile" -> OpcodeInfo("string", "", TRUE)
          [] o = "oCompression" -> OpcodeInfo("enum", "multistate_compression", FALSE)
          [] OTHER -> OpcodeInfo("string", "", FALSE)]

\* ... multistate_compression with its two keys, or with the terminator only, ...
MultistateTables ==
    {[t \in {"multistate_compression"} |-> <<s_yes, s_no>>],
     [t \in {"multistate_compression"} |-> <<>>]}

v_99 == <<"9", ".", "9">>

v_p1 == <<"p", "1">>

v_aes == <<"a", "e", "s">>

\* ... and the #define lines of the four headers.
PlainHeaders ==
    [h \in HeaderFiles |->
        CASE h = "version.h" ->
                <<Define("SSH_VERSION", <<Str(v_99)>>),
                  Define("SSH_PORTABLE", <<Str(v_p1)>>),
                  Define("SSH_RELEASE", <<Ident("SSH_VERSION"), Ident("SSH_PORTABLE")>>)>>
          [] h = "ssh.h" -> <<Define("SSH_DEFAULT_PORT", <<Str(s_22)>>)>>
          [] h = "myproposal.h" ->
                <<Define("KEX_CLIENT_ENCRYPT", <<Str(v_aes)>>),
                  Define("KEX_CLIENT_ENCRYPT", <<Str(v_aes), Ident("KEX_MORE")>>)>>
          [] OTHER -> <<>>]

\* pathnames.h defines the default port as well, with another value.
PortTwiceHeaders ==
    [PlainHeaders EXCEPT !["pathnames.h"] = <<Define("SSH_DEFAULT_PORT", <<Str(v_2222)>>)>>]

\* myproposal.h defines SSH_PORTABLE as well, with the same value.
SameTwiceHeaders ==
    [PlainHeaders EXCEPT !["myproposal.h"] = <<Define("SSH_PORTABLE", <<Str(v_p1)>>)>>]

\* SSH_RELEASE is defined by itself, and no default port is defined.
CyclicHeaders ==
    [PlainHeaders EXCEPT !["version.h"] = <<Define("SSH_RELEASE", <<Ident("SSH_RELEASE")>>)>>,
                         !["ssh.h"] = <<>>]

HeaderSets == {PlainHeaders, PortTwiceHeaders, SameTwiceHeaders, CyclicHeaders}

Sources ==
    {[readconf |-> [keywords |-> k, infos |-> OpcodeInfos, multistates |-> m],
      headers |-> h] :
        k \in SeqsUpTo(KeywordPool, MaxKeywords), m \in MultistateTables, h \in HeaderSets}

GenerateCall(fn, sources) == [fn |-> fn, sources |-> sources]

NoRuns == [done |-> FALSE, value |-> <<>>]

InitGenerate ==
    /\ pc = "done"
    /\ pass = "initial"
    /\ state = EmptyState
    /\ cfgIdx = 0
    /\ stack = <<>>
    /\ result = NilResult
    /\ canonDone = FALSE
    /\ ret = [result |-> NilResult, err |-> ""]
    /\ trace = <<>>
    /\ matchLog = <<>>
    /\ canonCalls = <<>>
    /\ passes = <<>>
    /\ configs = <<>>
    /\ ctx = Context(h_foo, "nil", "nil")
    /\ options = resolveOptions(FALSE, FALSE, NoCanonicalize)
    /\ answer = NoRuns
    /\ text = NoText
    /\ out = NoOutput
    /\ us = NoSettings
    /\ procs = NoCallers
    /\ io = NoIO
    /\ slices = NoSlices
    /\ \E fn \in {"Generate", "GenerateBytes"}, sources \in Sources :
          call = GenerateCall(fn, sources)

\* One more run of the call on the same sources.
ran(r) == [done |-> Len(answer.value) + 1 = MaxRuns, value |-> Append(answer.value, r)]

CallGenerate ==
    /\ call.fn = "Generate"
    /\ ~answer.done
    /\ \E order \in HeaderOrders : answer' = ran(Generate(call.sources, order))
    /\ UNCHANGED <<resolverVars, call, text, out, us, procs, io, slices>>

CallGenerateBytes ==
    /\ call.fn = "GenerateBytes"
    /\ ~answer.done
    /\ \E order \in HeaderOrders : answer' = ran(GenerateBytes(call.sources, order))
    /\ UNCHANGED <<resolverVars, call, text, out, us, procs, io, slices>>

NextGenerate == CallGenerate \/ CallGenerateBytes

SpecGenerate == InitGenerate /\ [][NextGenerate]_vars

(***************************************************************************)
(* C28.  For given contents of the OpenSSH source files, any two runs of   *)
(* GenerateBytes return identical bytes, in whatever order the header      *)
(* files are visited for macro definitions.                                *)
(***************************************************************************)
C28_GenerateBytesDeterministic ==
    call.fn = "GenerateBytes" =>
        \A i, j \in DOMAIN answer.value : answer.value[i] = answer.value[j]

(***************************************************************************)
(* C29.  Every directive entry Generate produces satisfies the invariants  *)
(* of a spec entry: an entry that is its own canonical has an empty        *)
(* aliasFor; an alias has status deprecated and a non-empty aliasFor; the  *)
(* enum list is non-empty iff the type is enum.                            *)
(***************************************************************************)
EntryInvariants(d) ==
    /\ d.Name = d.Canonical => d.AliasFor = <<>>
    /\ d.Name # d.Canonical => d.Status = "deprecated" /\ d.AliasFor # <<>>
    /\ d.Enum # <<>> <=> d.Type = "enum"

C29_GeneratedEntryInvariants ==
    call.fn = "Generate" =>
        \A r \in DOMAIN answer.value :
            \A i \in DOMAIN answer.value[r].spec.Directives :
                EntryInvariants(answer.value[r].spec.Directives[i])

\* No macro is defined by two of the headers.
DisjointHeaders(headers) ==
    \A g, h \in HeaderFiles :
        g # h => \A i \in DOMAIN headers[g], j \in DOMAIN headers[h] :
                    headers[g][i].name # headers[h][j].name

\* Where the headers define distinct macros the runs agree.
GenerateBytesAgreesOnDisjointHeaders ==
    (call.fn = "GenerateBytes" /\ DisjointHeaders(call.sources.headers)) =>
        \A i, j \in DOMAIN answer.value : answer.value[i] = answer.value[j]

\* An alias of a supported keyword was generated.
SupportedAliasGenerated ==
    /\ call.fn = "Generate"
    /\ \E r \in DOMAIN answer.value :
          \E i \in DOMAIN answer.value[r].spec.Directives :
              /\ answer.value[r].spec.Directives[i].AliasFor # <<>>
              /\ answer.value[r].spec.Directives[i].Status = "supported"

(***************************************************************************)
(* Resolve with a Canonicalize callback that changes the host, echoes it,  *)
(* or reports no change, over documents that match on the host, on the    *)
(* original host and by a command naming both; the call is recorded with   *)
(* the Context the caller passed.                                          *)
(***************************************************************************)
m_host_bar_x == <<"h", "o", "s", "t", " ", "b", "a", "r", ".", "x">>

IncTag == Config(<<ImplicitHost(<<KV(k_Tag, v_k)>>)>>)

CanonicalBlocks == {
    Host(<<h_foo>>, <<Include(<<path_inc1>>, <<IncTag>>), Empty, KV(k_User, v_a)>>),
    Host(<<h_bar>>, <<KV(k_User, v_i)>>),
    Host(<<p_star>>, <<KV(k_HostName, hn_pct)>>),
    Host(<<h_foo>>, <<KV(k_BadDirective, v_b)>>),
    Match(m_host_bar, <<KV(k_Tag, v_t)>>),
    Match(m_host_foo, <<KV(k_Port, v_2222)>>),
    Match(m_host_bar_x, <<KV(k_Port, v_2222)>>),
    Match(m_originalhost_foo, <<KV(k_IdentityFile, v_f1)>>),
    Match(m_originalhost_orig, <<KV(k_IdentityFile, v_f1)>>),
    Match(m_exec_n_h, <<KV(k_IdentityFile, v_f2)>>)}

ResolveCall(c) == [fn |-> "Resolve", ctx |-> c]

InitCanonical ==
    /\ pc = "start"
    /\ pass = "initial"
    /\ state = EmptyState
    /\ cfgIdx = 0
    /\ stack = <<>>
    /\ result = NilResult
    /\ canonDone = FALSE
    /\ ret = [result |-> NilResult, err |-> ""]
    /\ trace = <<>>
    /\ matchLog = <<>>
    /\ canonCalls = <<>>
    /\ passes = <<>>
    /\ answer = Pending
    /\ text = NoText
    /\ out = NoOutput
    /\ us = NoSettings
    /\ procs = NoCallers
    /\ io = NoIO
    /\ slices = NoSlices
    /\ \E blocks \in SeqsUpTo(CanonicalBlocks, MaxBlocks) : configs = <<Document(blocks)>>
    /\ \E h \in {h_foo, h_bar}, o \in {<<>>, h_orig} :
          ctx = [Context(h, "true", "nil") EXCEPT !.OriginalHost = o]
    /\ call = ResolveCall(ctx)
    /\ \E s \in BOOLEAN, f \in BOOLEAN,
          c \in {NoCanonicalize, CanonicalizeTo(h_bar),
                 CanonicalizeFn(TRUE, <<>>, TRUE, FALSE),
                 CanonicalizeFn(FALSE, h_bar, FALSE, FALSE)} :
          options = resolveOptions(s, f, c)

SpecCanonical == InitCanonical /\ [][Next]_vars

(***************************************************************************)
(* C30.  When the Canonicalize callback changes the host, the canonical    *)
(* pass and any final pass decide Host blocks and Match host lines on the  *)
(* canonical name, while Match originalhost and the %n token keep the host *)
(* the caller supplied: Context.OriginalHost, or the caller's HostArg when *)
(* that was empty.  The callback is invoked at most once per Resolve, only *)
(* after the initial pass succeeded, and with the caller's HostArg.        *)
(***************************************************************************)
\* The host the caller supplied.
CallerHost ==
    IF call.ctx.OriginalHost = <<>> THEN call.ctx.HostArg ELSE call.ctx.OriginalHost

\* What the callback returns for the caller's HostArg.
CanonicalName == canonicalizeCall(options.canonicalize, call.ctx.HostArg).canonical

\* The walk is in the canonical pass, or in the final pass that follows it.
AfterCanonicalization ==
    /\ pass \in {"canonical", "final"}
    /\ \E i \in DOMAIN passes : passes[i] = "canonical"

\* The effective host of the pass so far, HostArg being the canonical name.
CanonicalHostSoFar ==
    IF ConfiguredValues(s_hostname) # <<>>
    THEN HostNameFor(ConfiguredValues(s_hostname)[1], CanonicalName)
    ELSE CanonicalName

\* The name of an "originalhost <name>" line, <<>> for any other line.
OriginalHostLineName(raw) ==
    IF Len(raw) > 13 /\ SubSeq(raw, 1, 13) = <<"o", "r", "i", "g", "i", "n", "a", "l",
                                                "h", "o", "s", "t", " ">>
    THEN SubSeq(raw, 14, Len(raw))
    ELSE <<>>

C30_CanonicalHostAndOriginalHost ==
    [][/\ canonCalls' # canonCalls =>
             /\ canonCalls = <<>>
             /\ canonCalls' = <<call.ctx.HostArg>>
             /\ passes = <<"initial">>
             /\ pc = "passEnd"
             /\ result.ok
       /\ (AfterCanonicalization /\ AtHeader /\ CurBlock.kind = "Host" /\ ~Top.neverMatch
             /\ Len(CurBlock.Nodes) > 0) =>
             stack'[Len(stack')].active = NamesHost(CurBlock, CanonicalName)
       /\ (AfterCanonicalization /\ AtMatchHeader) =>
             /\ Len(matchLog') = Len(matchLog) + 1
             /\ HostLineName(CurBlock.Criteria) # <<>> =>
                   matchLog'[Len(matchLog')].active
                      = (HostLineName(CurBlock.Criteria) = CanonicalHostSoFar)
             /\ OriginalHostLineName(CurBlock.Criteria) # <<>> =>
                   matchLog'[Len(matchLog')].active
                      = (OriginalHostLineName(CurBlock.Criteria) = CallerHost)
             /\ CurBlock.Criteria = m_exec_n_h =>
                   matchLog'[Len(matchLog')].evals[1].exec
                      = <<<<"c", " ">> \o CallerHost \o <<" ">> \o CanonicalHostSoFar>>
      ]_vars

\* The caller resolved foo with no OriginalHost and the callback named bar:
\* in the canonical pass "Match host bar" held and "Match originalhost foo"
\* held, and the callback had been called once, with foo.
C30_Witness ==
    /\ call.ctx.HostArg = h_foo
    /\ call.ctx.OriginalHost = <<>>
    /\ pass = "canonical"
    /\ pc = "passEnd"
    /\ canonCalls = <<h_foo>>
    /\ ctx.HostArg = h_bar
    /\ Len(matchLog) = 4
    /\ configs[1].Blocks[2].Criteria = m_host_bar
    /\ configs[1].Blocks[3].Criteria = m_originalhost_foo
    /\ ~matchLog[1].active /\ matchLog[1].pass = "initial"
    /\ matchLog[2].active /\ matchLog[2].pass = "initial"
    /\ matchLog[3].active /\ matchLog[3].pass = "canonical"
    /\ matchLog[4].active /\ matchLog[4].pass = "canonical"

\* The caller gave OriginalHost orig; in the final pass after the canonical
\* one the command received "c orig bar.x": %n is the caller's host, %h the
\* HostName built on the canonical name.
C30_WitnessExec ==
    /\ call.ctx.HostArg = h_foo
    /\ call.ctx.OriginalHost = h_orig
    /\ passes = <<"initial", "canonical", "final">>
    /\ matchLog # <<>>
    /\ matchLog[Len(matchLog)].pass = "final"
    /\ matchLog[Len(matchLog)].evals
          = <<[outcome |-> "true",
               exec |-> <<<<"c", " ", "o", "r", "i", "g", " ", "b", "a", "r", ".", "x">>>>,
               net |-> <<>>]>>

\* The initial pass failed on an unknown directive in strict mode, and the
\* callback was never called.
C30_WitnessFailed ==
    /\ pc = "done"
    /\ ret.err # ""
    /\ passes = <<"initial">>
    /\ options.canonicalize.set
    /\ canonCalls = <<>>

=============================================================================
